---- MODULE Spec2Model ----
(***************************************************************************)
(* State-machine model of the knowledge-base server: the relational store  *)
(* (server/storage.ts over the tables of migrations/0000_*.sql) and the    *)
(* REST handlers of server/routes.ts that read and write it.  One action   *)
(* per route handler; every handler runs against the current rows and      *)
(* leaves its answer in resp.                                               *)
(***************************************************************************)
EXTENDS Integers, FiniteSets, Sequences, TLC

VARIABLES
    users,             \* rows of table users:       [id, role]
    categories,        \* rows of table categories:  [id, createdBy]
    articles,          \* rows of table articles:    [id, categoryId, authorId, creator]
    permissions,       \* rows of table permissions: [id, userId, categoryId, permissionType]
    nextCategoryId,    \* serial of categories.id
    nextArticleId,     \* serial of articles.id
    nextPermissionId,  \* serial of permissions.id
    resp,              \* the last request and its answer
    files,             \* rows of table files:       [id, uploadedBy, articleId]
    nextUserId,        \* serial of users.id
    nextFileId,        \* serial of files.id
    inflight,          \* requests between two of their awaits, by request slot
    pw                 \* the password helpers' arguments and their result

vars == <<users, categories, articles, permissions,
          nextCategoryId, nextArticleId, nextPermissionId, resp,
          files, nextUserId, nextFileId, inflight, pw>>

(* What the category, permission, article and user handlers above the      *)
(* file and auth sections neither read nor write.                          *)
aux == <<files, nextUserId, nextFileId, inflight, pw>>

store == <<users, categories, articles, permissions>>

----------------------------------------------------------------------------
(* Bounds of the model: how many rows each serial may hand out.            *)
MaxCategories == 1
MaxArticles == 1
MaxPermissions == 2

(* SQL NULL / JS null in a nullable column, and a field that a partial     *)
(* payload does not carry (JS undefined).                                  *)
NULL == 0
Absent == -1

(* The two seeded accounts of createDefaultUsers.                          *)
SeedAdminId == 1
SeedUserId == 2

(* permission_type is a varchar(50): the strings the code compares against *)
(* ('read', 'write', 'none', 'admin') are all storable.                    *)
PermissionTypes == {"read", "write", "none", "admin"}
Roles == {"admin", "user"}

NoRow == [id |-> NULL]
NoBody == {}

----------------------------------------------------------------------------
(* Storage reads                                                            *)

UserIds == {u.id : u \in users}
CategoryIds == {c.id : c \in categories}
ArticleIds == {a.id : a \in articles}
PermissionIds == {p.id : p \in permissions}

getUser(id) ==
    IF id \in UserIds THEN CHOOSE u \in users : u.id = id ELSE NoRow

getCategory(id) ==
    IF id \in CategoryIds THEN CHOOSE c \in categories : c.id = id ELSE NoRow

getArticle(id) ==
    IF id \in ArticleIds THEN CHOOSE a \in articles : a.id = id ELSE NoRow

(* A lookup that forgets the user and takes any row of the category.       *)
getAnyCategoryPermission(userId, categoryId) ==
    IF {p \in permissions : categoryId # NULL /\ p.categoryId = categoryId} = {} THEN NoRow
    ELSE CHOOSE p \in permissions : p.categoryId = categoryId

(* WHERE user_id = $1 AND category_id = $2: a NULL on either side of an    *)
(* SQL equality matches no row.                                            *)
PermissionRowsFor(userId, categoryId) ==
    {p \in permissions : /\ userId # NULL /\ categoryId # NULL
                         /\ p.userId = userId /\ p.categoryId = categoryId}

getUserCategoryPermission(userId, categoryId) ==
    IF PermissionRowsFor(userId, categoryId) = {} THEN NoRow
    ELSE CHOOSE p \in PermissionRowsFor(userId, categoryId) : TRUE

getUserPermissions(userId) == {p \in permissions : p.userId = userId}

(* categories INNER JOIN permissions: one result row per matching          *)
(* permission row, kept as (category id, permission id) pairs.             *)
getCategoriesByUser(userId) ==
    {<<p.categoryId, p.id>> : p \in
        {q \in permissions : /\ q.categoryId \in CategoryIds
                             /\ q.userId = userId
                             /\ q.permissionType \in {"read", "write", "admin"}}}

getCategories == {<<c.id, NULL>> : c \in categories}

----------------------------------------------------------------------------
(* Middleware                                                               *)

(* A guard that looks only for the user's row and not at its role.         *)
requireKnownUser(userId) ==
    getUser(userId) # NoRow

requireAdmin(userId) ==
    /\ getUser(userId) # NoRow
    /\ getUser(userId).role = "admin"

Answer(op, actor, target, status, body) ==
    [op |-> op, actor |-> actor, target |-> target, status |-> status, body |-> body]

----------------------------------------------------------------------------
(* No file row, no request in flight, no password under comparison; the    *)
(* users serial stands after the two seeded accounts.                      *)
InitAux ==
    /\ files = {}
    /\ nextUserId = SeedUserId + 1
    /\ nextFileId = 1
    /\ inflight = <<>>
    /\ pw = [call |-> "none"]

Init ==
    /\ users = {[id |-> SeedAdminId, role |-> "admin"],
                [id |-> SeedUserId, role |-> "user"]}
    /\ categories = {}
    /\ articles = {}
    /\ permissions = {}
    /\ nextCategoryId = 1
    /\ nextArticleId = 1
    /\ nextPermissionId = 1
    /\ resp = Answer("none", NULL, NULL, 0, NoBody)
    /\ InitAux

----------------------------------------------------------------------------
(* Foreign keys of the migration (ON DELETE no action): a reference is     *)
(* NULL or names an existing row.                                          *)
UserRefOk(ref) == ref = NULL \/ ref \in UserIds
CategoryRefOk(ref) == ref = NULL \/ ref \in CategoryIds

(* Values a request may put in a category reference: every id the serial   *)
(* can hand out (with or without a row) and null.                          *)
CategoryRefs == (1 .. MaxCategories) \cup {NULL}

Patch(old, new) == IF new = Absent THEN old ELSE new
PatchText(old, new) == IF new = "undefined" THEN old ELSE new

----------------------------------------------------------------------------
(* Request payloads                                                         *)

(* An id that names no user row: the one the serial has not handed out.    *)
UnknownUserId == nextUserId

(* The accounts permissions are granted to: every user but the seeded      *)
(* administrator.                                                          *)
GranteeIds == UserIds \ {SeedAdminId}

(* Every route gets one body that its zod schema rejects (ok = FALSE) and  *)
(* the well-formed bodies over the ids of the model.                       *)
CategoryBodies ==
    [ok : {TRUE}, createdBy : UserIds \cup {UnknownUserId}]
        \cup {[ok |-> FALSE, createdBy |-> NULL]}
CategoryPatches ==
    [ok : {TRUE}, createdBy : UserIds \cup {Absent}]
        \cup {[ok |-> FALSE, createdBy |-> Absent]}
PermissionBodies ==
    [ok : {TRUE}, userId : GranteeIds, categoryId : CategoryRefs,
     permissionType : PermissionTypes]
        \cup {[ok |-> FALSE, userId |-> NULL, categoryId |-> NULL,
               permissionType |-> "undefined"]}
PermissionPatches ==
    [ok : {TRUE}, userId : {Absent}, categoryId : {Absent},
     permissionType : PermissionTypes \cup {"undefined"}]
        \cup [ok : {TRUE}, userId : GranteeIds, categoryId : {Absent},
              permissionType : {"undefined"}]
        \cup [ok : {TRUE}, userId : {Absent}, categoryId : CategoryRefs,
              permissionType : {"undefined"}]
        \cup {[ok |-> FALSE, userId |-> Absent, categoryId |-> Absent,
               permissionType |-> "undefined"]}
ArticleBodies ==
    [ok : {TRUE}, categoryId : CategoryRefs, authorId : {SeedAdminId, Absent}]
        \cup {[ok |-> FALSE, categoryId |-> NULL, authorId |-> Absent]}
ArticlePatches ==
    [ok : {TRUE}, categoryId : CategoryRefs \cup {Absent},
     authorId : UserIds \cup {Absent}]
        \cup {[ok |-> FALSE, categoryId |-> Absent, authorId |-> Absent]}
UserPatches ==
    [ok : {TRUE}, role : Roles \cup {"undefined"}] \cup {[ok |-> FALSE, role |-> "undefined"]}

----------------------------------------------------------------------------
(* Category routes                                                          *)

GetCategories(u) ==
    /\ resp' = Answer("GET /api/categories", u, NULL, 200,
                      IF getUser(u).role = "admin" THEN getCategories
                      ELSE getCategoriesByUser(u))
    /\ UNCHANGED <<store, nextCategoryId, nextArticleId, nextPermissionId>>

createCategory(categoryData) ==
    categories \cup {[id |-> nextCategoryId, createdBy |-> categoryData.createdBy]}

PostCategory(u) ==
    LET op == "POST /api/categories" IN
    IF ~requireAdmin(u) THEN
        /\ resp' = Answer(op, u, NULL, 403, NoBody)
        /\ UNCHANGED <<store, nextCategoryId, nextArticleId, nextPermissionId>>
    ELSE \E body \in CategoryBodies :
        IF ~body.ok THEN
            /\ resp' = Answer(op, u, NULL, 400, NoBody)
            /\ UNCHANGED <<store, nextCategoryId, nextArticleId, nextPermissionId>>
        ELSE IF ~UserRefOk(body.createdBy) THEN
            /\ resp' = Answer(op, u, NULL, 500, NoBody)
            /\ UNCHANGED <<store, nextCategoryId, nextArticleId, nextPermissionId>>
        ELSE
            /\ nextCategoryId <= MaxCategories
            /\ categories' = createCategory(body)
            /\ nextCategoryId' = nextCategoryId + 1
            /\ resp' = Answer(op, u, nextCategoryId, 201,
                              [id |-> nextCategoryId, createdBy |-> body.createdBy])
            /\ UNCHANGED <<users, articles, permissions, nextArticleId, nextPermissionId>>

updateCategory(id, categoryData) ==
    {IF c.id = id
     THEN [c EXCEPT !.createdBy = Patch(c.createdBy, categoryData.createdBy)]
     ELSE c : c \in categories}

PutCategory(u, id) ==
    LET op == "PUT /api/categories/:id" IN
    IF ~requireAdmin(u) THEN
        /\ resp' = Answer(op, u, id, 403, NoBody)
        /\ UNCHANGED <<store, nextCategoryId, nextArticleId, nextPermissionId>>
    ELSE \E body \in CategoryPatches :
        IF ~body.ok \/ (id \in CategoryIds /\ ~UserRefOk(Patch(NULL, body.createdBy))) THEN
            /\ resp' = Answer(op, u, id, 500, NoBody)
            /\ UNCHANGED <<store, nextCategoryId, nextArticleId, nextPermissionId>>
        ELSE IF id \notin CategoryIds THEN
            /\ resp' = Answer(op, u, id, 404, NoBody)
            /\ UNCHANGED <<store, nextCategoryId, nextArticleId, nextPermissionId>>
        ELSE
            /\ categories' = updateCategory(id, body)
            /\ resp' = Answer(op, u, id, 200,
                              [id |-> id,
                               createdBy |-> Patch(getCategory(id).createdBy, body.createdBy)])
            /\ UNCHANGED <<users, articles, permissions,
                           nextCategoryId, nextArticleId, nextPermissionId>>

deleteCategory(id) == {c \in categories : c.id # id}

CategoryReferenced(id) ==
    \/ \E a \in articles : a.categoryId = id
    \/ \E p \in permissions : p.categoryId = id

DeleteCategory(u, id) ==
    LET op == "DELETE /api/categories/:id" IN
    IF ~requireAdmin(u) THEN
        /\ resp' = Answer(op, u, id, 403, NoBody)
        /\ UNCHANGED <<store, nextCategoryId, nextArticleId, nextPermissionId>>
    ELSE IF id \in CategoryIds /\ CategoryReferenced(id) THEN
        /\ resp' = Answer(op, u, id, 500, NoBody)
        /\ UNCHANGED <<store, nextCategoryId, nextArticleId, nextPermissionId>>
    ELSE IF id \notin CategoryIds THEN
        /\ resp' = Answer(op, u, id, 404, NoBody)
        /\ UNCHANGED <<store, nextCategoryId, nextArticleId, nextPermissionId>>
    ELSE
        /\ categories' = deleteCategory(id)
        /\ resp' = Answer(op, u, id, 204, NoBody)
        /\ UNCHANGED <<users, articles, permissions,
                       nextCategoryId, nextArticleId, nextPermissionId>>

----------------------------------------------------------------------------
(* Permission routes                                                        *)

GetPermissions(u) ==
    LET op == "GET /api/permissions" IN
    /\ resp' = IF ~requireAdmin(u)
               THEN Answer(op, u, NULL, 403, NoBody)
               ELSE Answer(op, u, NULL, 200, permissions)
    /\ UNCHANGED <<store, nextCategoryId, nextArticleId, nextPermissionId>>

(* INSERT ... ON CONFLICT (user_id, category_id) DO UPDATE SET             *)
(* permission_type: the unique index sees a conflict only between rows     *)
(* whose two columns are both non-null and equal.                          *)
setUserPermission(permissionData) ==
    IF PermissionRowsFor(permissionData.userId, permissionData.categoryId) # {}
    THEN {IF p \in PermissionRowsFor(permissionData.userId, permissionData.categoryId)
          THEN [p EXCEPT !.permissionType = permissionData.permissionType]
          ELSE p : p \in permissions}
    ELSE permissions \cup {[id |-> nextPermissionId,
                            userId |-> permissionData.userId,
                            categoryId |-> permissionData.categoryId,
                            permissionType |-> permissionData.permissionType]}

PostPermission(u) ==
    LET op == "POST /api/permissions" IN
    IF ~requireAdmin(u) THEN
        /\ resp' = Answer(op, u, NULL, 403, NoBody)
        /\ UNCHANGED <<store, nextCategoryId, nextArticleId, nextPermissionId>>
    ELSE \E body \in PermissionBodies :
        LET hit == PermissionRowsFor(body.userId, body.categoryId)
            rowId == IF hit = {} THEN nextPermissionId ELSE (CHOOSE p \in hit : TRUE).id
        IN
        IF ~body.ok THEN
            /\ resp' = Answer(op, u, NULL, 400, NoBody)
            /\ UNCHANGED <<store, nextCategoryId, nextArticleId, nextPermissionId>>
        ELSE IF ~UserRefOk(body.userId) \/ ~CategoryRefOk(body.categoryId) THEN
            /\ resp' = Answer(op, u, NULL, 500, NoBody)
            /\ UNCHANGED <<store, nextCategoryId, nextArticleId, nextPermissionId>>
        ELSE
            /\ hit = {} => nextPermissionId <= MaxPermissions
            /\ permissions' = setUserPermission(body)
            /\ nextPermissionId' = IF hit = {} THEN nextPermissionId + 1
                                   ELSE nextPermissionId
            /\ resp' = Answer(op, u, rowId, 201,
                              [id |-> rowId, userId |-> body.userId,
                               categoryId |-> body.categoryId,
                               permissionType |-> body.permissionType])
            /\ UNCHANGED <<users, categories, articles, nextCategoryId, nextArticleId>>

PatchPermission(p, permissionData) ==
    [id |-> p.id,
     userId |-> Patch(p.userId, permissionData.userId),
     categoryId |-> Patch(p.categoryId, permissionData.categoryId),
     permissionType |-> PatchText(p.permissionType, permissionData.permissionType)]

updatePermission(id, permissionData) ==
    {IF p.id = id THEN PatchPermission(p, permissionData) ELSE p : p \in permissions}

(* user_category_unique would be violated by the patched row.              *)
UniqueViolation(id, permissionData) ==
    \E p \in permissions, q \in permissions :
        /\ p.id = id /\ q.id # id
        /\ PatchPermission(p, permissionData).userId # NULL
        /\ PatchPermission(p, permissionData).categoryId # NULL
        /\ PatchPermission(p, permissionData).userId = q.userId
        /\ PatchPermission(p, permissionData).categoryId = q.categoryId

EmptyPermissionPatch(permissionData) ==
    /\ permissionData.userId = Absent
    /\ permissionData.categoryId = Absent
    /\ permissionData.permissionType = "undefined"

PutPermission(u, id) ==
    LET op == "PUT /api/permissions/:id" IN
    IF ~requireAdmin(u) THEN
        /\ resp' = Answer(op, u, id, 403, NoBody)
        /\ UNCHANGED <<store, nextCategoryId, nextArticleId, nextPermissionId>>
    ELSE \E body \in PermissionPatches :
        LET rejected ==
                /\ id \in PermissionIds
                /\ \/ ~UserRefOk(Patch(NULL, body.userId))
                   \/ ~CategoryRefOk(Patch(NULL, body.categoryId))
                   \/ UniqueViolation(id, body)
        IN
        IF ~body.ok \/ EmptyPermissionPatch(body) \/ rejected THEN
            /\ resp' = Answer(op, u, id, 500, NoBody)
            /\ UNCHANGED <<store, nextCategoryId, nextArticleId, nextPermissionId>>
        ELSE IF id \notin PermissionIds THEN
            /\ resp' = Answer(op, u, id, 404, NoBody)
            /\ UNCHANGED <<store, nextCategoryId, nextArticleId, nextPermissionId>>
        ELSE
            /\ permissions' = updatePermission(id, body)
            /\ resp' = Answer(op, u, id, 200,
                              PatchPermission(CHOOSE p \in permissions : p.id = id, body))
            /\ UNCHANGED <<users, categories, articles,
                           nextCategoryId, nextArticleId, nextPermissionId>>

----------------------------------------------------------------------------
(* Article routes                                                           *)

(* The filter of GET /api/articles: allowedCategoryIds.includes(...) is a  *)
(* JS comparison, under which null equals null.                            *)
allowedCategoryIds(userId) ==
    {p.categoryId : p \in {q \in getUserPermissions(userId) : q.permissionType # "none"}}

GetArticles(u) ==
    /\ resp' = Answer("GET /api/articles", u, NULL, 200,
                      IF getUser(u).role # "admin"
                      THEN {a \in articles : a.categoryId \in allowedCategoryIds(u)}
                      ELSE articles)
    /\ UNCHANGED <<store, nextCategoryId, nextArticleId, nextPermissionId>>

(* A read check without the admin short-circuit.                           *)
canReadByRowOnly(u, article) ==
    ~(\/ getUserCategoryPermission(u, article.categoryId) = NoRow
      \/ getUserCategoryPermission(u, article.categoryId).permissionType = "none")

canRead(u, article) ==
    \/ getUser(u).role = "admin"
    \/ ~(\/ getUserCategoryPermission(u, article.categoryId) = NoRow
         \/ getUserCategoryPermission(u, article.categoryId).permissionType = "none")

GetArticle(u, id) ==
    LET op == "GET /api/articles/:id" IN
    /\ resp' = IF getArticle(id) = NoRow
               THEN Answer(op, u, id, 404, "Article not found")
               ELSE IF ~canRead(u, getArticle(id))
               THEN Answer(op, u, id, 403, "Access denied")
               ELSE Answer(op, u, id, 200, getArticle(id))
    /\ UNCHANGED <<store, nextCategoryId, nextArticleId, nextPermissionId>>

(* A create check that accepts every row other than `none`.                *)
canCreateWithAnyRow(u, categoryId) ==
    \/ getUser(u).role = "admin"
    \/ /\ getUserCategoryPermission(u, categoryId) # NoRow
       /\ getUserCategoryPermission(u, categoryId).permissionType # "none"

canCreate(u, categoryId) ==
    \/ getUser(u).role = "admin"
    \/ /\ getUserCategoryPermission(u, categoryId) # NoRow
       /\ getUserCategoryPermission(u, categoryId).permissionType = "write"

(* insertArticleSchema.parse({...req.body, authorId: userId})              *)
articleData(u, body) ==
    [categoryId |-> body.categoryId, authorId |-> u]

createArticle(data, by) ==
    articles \cup {[id |-> nextArticleId, categoryId |-> data.categoryId,
                    authorId |-> data.authorId, creator |-> by]}

(* The answer's target is the category the request body names.             *)
PostArticle(u, body) ==
    LET op == "POST /api/articles" IN
    IF ~canCreate(u, body.categoryId) THEN
        /\ resp' = Answer(op, u, body.categoryId, 403, NoBody)
        /\ UNCHANGED <<store, nextCategoryId, nextArticleId, nextPermissionId>>
    ELSE IF ~body.ok THEN
        /\ resp' = Answer(op, u, body.categoryId, 400, NoBody)
        /\ UNCHANGED <<store, nextCategoryId, nextArticleId, nextPermissionId>>
    ELSE IF ~CategoryRefOk(articleData(u, body).categoryId)
            \/ ~UserRefOk(articleData(u, body).authorId) THEN
        /\ resp' = Answer(op, u, body.categoryId, 500, NoBody)
        /\ UNCHANGED <<store, nextCategoryId, nextArticleId, nextPermissionId>>
    ELSE
        /\ nextArticleId <= MaxArticles
        /\ articles' = createArticle(articleData(u, body), u)
        /\ nextArticleId' = nextArticleId + 1
        /\ resp' = Answer(op, u, body.categoryId, 201,
                          [id |-> nextArticleId,
                           categoryId |-> articleData(u, body).categoryId,
                           authorId |-> articleData(u, body).authorId,
                           creator |-> u])
        /\ UNCHANGED <<users, categories, permissions, nextCategoryId, nextPermissionId>>

(* An edit check that accepts every row other than `none`.                 *)
canEditWithAnyRow(u, existingArticle) ==
    \/ getUser(u).role = "admin"
    \/ existingArticle.authorId = u
    \/ /\ getUserCategoryPermission(u, existingArticle.categoryId) # NoRow
       /\ getUserCategoryPermission(u, existingArticle.categoryId).permissionType # "none"

canEdit(u, existingArticle) ==
    \/ getUser(u).role = "admin"
    \/ existingArticle.authorId = u
    \/ /\ getUserCategoryPermission(u, existingArticle.categoryId) # NoRow
       /\ getUserCategoryPermission(u, existingArticle.categoryId).permissionType = "write"

PatchArticle(a, data) ==
    [id |-> a.id,
     categoryId |-> Patch(a.categoryId, data.categoryId),
     authorId |-> Patch(a.authorId, data.authorId),
     creator |-> a.creator]

updateArticle(id, data) ==
    {IF a.id = id THEN PatchArticle(a, data) ELSE a : a \in articles}

PutArticle(u, id, body) ==
    LET op == "PUT /api/articles/:id" IN
    IF getArticle(id) = NoRow THEN
        /\ resp' = Answer(op, u, id, 404, NoBody)
        /\ UNCHANGED <<store, nextCategoryId, nextArticleId, nextPermissionId>>
    ELSE IF ~canEdit(u, getArticle(id)) THEN
        /\ resp' = Answer(op, u, id, 403, NoBody)
        /\ UNCHANGED <<store, nextCategoryId, nextArticleId, nextPermissionId>>
    ELSE IF \/ ~body.ok
            \/ ~CategoryRefOk(PatchArticle(getArticle(id), body).categoryId)
            \/ ~UserRefOk(PatchArticle(getArticle(id), body).authorId) THEN
        /\ resp' = Answer(op, u, id, 500, NoBody)
        /\ UNCHANGED <<store, nextCategoryId, nextArticleId, nextPermissionId>>
    ELSE
        /\ articles' = updateArticle(id, body)
        /\ resp' = Answer(op, u, id, 200,
                          PatchArticle(getArticle(id), body))
        /\ UNCHANGED <<users, categories, permissions,
                       nextCategoryId, nextArticleId, nextPermissionId>>

(* A delete check that also accepts a write row, as the edit check does.   *)
canDeleteWithWrite(u, existingArticle) ==
    \/ getUser(u).role = "admin"
    \/ existingArticle.authorId = u
    \/ /\ getUserCategoryPermission(u, existingArticle.categoryId) # NoRow
       /\ getUserCategoryPermission(u, existingArticle.categoryId).permissionType = "write"

canDelete(u, existingArticle) ==
    \/ getUser(u).role = "admin"
    \/ existingArticle.authorId = u

deleteArticle(id) == {a \in articles : a.id # id}

DeleteArticle(u, id) ==
    LET op == "DELETE /api/articles/:id" IN
    IF getArticle(id) = NoRow THEN
        /\ resp' = Answer(op, u, id, 404, NoBody)
        /\ UNCHANGED <<store, nextCategoryId, nextArticleId, nextPermissionId>>
    ELSE IF ~canDelete(u, getArticle(id)) THEN
        /\ resp' = Answer(op, u, id, 403, NoBody)
        /\ UNCHANGED <<store, nextCategoryId, nextArticleId, nextPermissionId>>
    ELSE
        /\ articles' = deleteArticle(id)
        /\ resp' = Answer(op, u, id, 204, NoBody)
        /\ UNCHANGED <<users, categories, permissions,
                       nextCategoryId, nextArticleId, nextPermissionId>>

----------------------------------------------------------------------------
(* User routes                                                              *)

updateUser(id, userData) ==
    {IF x.id = id THEN [x EXCEPT !.role = PatchText(x.role, userData.role)] ELSE x
     : x \in users}

PutUser(u, id) ==
    LET op == "PUT /api/users/:id" IN
    IF ~requireAdmin(u) THEN
        /\ resp' = Answer(op, u, id, 403, NoBody)
        /\ UNCHANGED <<store, nextCategoryId, nextArticleId, nextPermissionId>>
    ELSE \E body \in UserPatches :
        IF ~body.ok THEN
            /\ resp' = Answer(op, u, id, 500, NoBody)
            /\ UNCHANGED <<store, nextCategoryId, nextArticleId, nextPermissionId>>
        ELSE IF id \notin UserIds THEN
            /\ resp' = Answer(op, u, id, 404, NoBody)
            /\ UNCHANGED <<store, nextCategoryId, nextArticleId, nextPermissionId>>
        ELSE
            /\ users' = updateUser(id, body)
            /\ resp' = Answer(op, u, id, 200,
                              [id |-> id, role |-> PatchText(getUser(id).role, body.role)])
            /\ UNCHANGED <<categories, articles, permissions,
                           nextCategoryId, nextArticleId, nextPermissionId>>

(* An authenticated request carries the id of an existing user             *)
(* (deserializeUser).                                                      *)
Handlers ==
    \E u \in UserIds :
        \/ GetCategories(u)
        \/ PostCategory(u)
        \/ \E id \in 1 .. MaxCategories : PutCategory(u, id)
        \/ \E id \in 1 .. MaxCategories : DeleteCategory(u, id)
        \/ GetPermissions(u)
        \/ PostPermission(u)
        \/ \E id \in 1 .. MaxPermissions : PutPermission(u, id)
        \/ GetArticles(u)
        \/ \E id \in 1 .. MaxArticles : GetArticle(u, id)
        \/ \E body \in ArticleBodies : PostArticle(u, body)
        \/ \E id \in 1 .. MaxArticles, body \in ArticlePatches : PutArticle(u, id, body)
        \/ \E id \in 1 .. MaxArticles : DeleteArticle(u, id)
        \/ \E id \in {SeedUserId, UnknownUserId} : PutUser(u, id)

Next == Handlers /\ UNCHANGED aux

Spec == Init /\ [][Next]_vars

----------------------------------------------------------------------------
(* Vocabulary of the claims                                                 *)

Role(u) == getUser(u).role
IsAdmin(u) == u \in UserIds /\ Role(u) = "admin"
NonAdmin(u) == u \in UserIds /\ Role(u) # "admin"

(* The Permission rows for the pair (u, c), as the claims speak of them.   *)
RowsOfPair(u, c) == {p \in permissions : p.userId = u /\ p.categoryId = c}
HoldsType(u, c, types) == \E p \in RowsOfPair(u, c) : p.permissionType \in types

ArticleOps == {"GET /api/articles", "GET /api/articles/:id", "POST /api/articles",
               "PUT /api/articles/:id", "DELETE /api/articles/:id"}
CategoryOps == {"GET /api/categories", "POST /api/categories",
                "PUT /api/categories/:id", "DELETE /api/categories/:id"}
PermissionOps == {"GET /api/permissions", "POST /api/permissions",
                  "PUT /api/permissions/:id"}
AdminOnlyOps == (CategoryOps \ {"GET /api/categories"}) \cup PermissionOps

----------------------------------------------------------------------------
(* C1: a request of an admin to an article, category or permission route   *)
(* is never answered 403, whatever Permission rows exist for that admin.   *)
C1_AdminNeverForbidden ==
    (resp.op \in ArticleOps \cup CategoryOps \cup PermissionOps /\ IsAdmin(resp.actor))
        => resp.status # 403

(* An admin holding an explicit `none` row on the article's category has   *)
(* read the article.                                                       *)
C1_Witness ==
    /\ resp.op = "GET /api/articles/:id"
    /\ resp.status = 200
    /\ IsAdmin(resp.actor)
    /\ HoldsType(resp.actor, resp.body.categoryId, {"none"})

(* C2: a non-admin reads an existing article (in a category) iff the       *)
(* Permission row for (user, article.categoryId) has type read or write;   *)
(* every denial is the same 403 "Access denied".                           *)
C2_ReadIffReadOrWrite ==
    (/\ resp.op = "GET /api/articles/:id"
     /\ NonAdmin(resp.actor)
     /\ resp.target \in ArticleIds
     /\ getArticle(resp.target).categoryId # NULL)
        => /\ resp.status = 200 <=>
                HoldsType(resp.actor, getArticle(resp.target).categoryId, {"read", "write"})
           /\ resp.status # 200 => (resp.status = 403 /\ resp.body = "Access denied")

(* C3: PUT /api/articles/:id of a non-admin on an existing article is      *)
(* refused with 403 exactly when the user is neither the article's author  *)
(* nor holder of a write row on its category; a refused or failed request  *)
(* leaves the articles alone, and a 200 has patched the row.               *)
C3_PutIffAuthorOrWrite ==
    [][(/\ resp'.op = "PUT /api/articles/:id"
        /\ NonAdmin(resp'.actor)
        /\ resp'.target \in ArticleIds)
          => LET u == resp'.actor
                 a == getArticle(resp'.target)
                 allowed == \/ a.authorId = u
                            \/ /\ a.categoryId # NULL
                               /\ HoldsType(u, a.categoryId, {"write"})
             IN /\ resp'.status = 403 <=> ~allowed
                /\ resp'.status \in {200, 403, 500}
                /\ resp'.status # 200 => articles' = articles
                /\ resp'.status = 200 =>
                      /\ articles' = (articles \ {a}) \cup {resp'.body}
                      /\ resp'.body.id = a.id]_vars

(* A non-author holding write on the article's category has updated it.    *)
C3_Witness ==
    /\ resp.op = "PUT /api/articles/:id"
    /\ resp.status = 200
    /\ NonAdmin(resp.actor)
    /\ resp.body.creator # resp.actor
    /\ resp.body.authorId # resp.actor
    /\ HoldsType(resp.actor, resp.body.categoryId, {"write"})

C5_DeletedOnlyByAdminOrCreator ==
    [][(/\ resp'.op = "DELETE /api/articles/:id"
        /\ resp'.status = 204
        /\ NonAdmin(resp'.actor)
        /\ resp.op = "PUT /api/articles/:id"
        /\ resp.status = 200
        /\ resp.actor = resp'.actor
        /\ resp.target = resp'.target
        /\ getArticle(resp'.target).categoryId # NULL
        /\ HoldsType(resp'.actor, getArticle(resp'.target).categoryId, {"write"}))
          => getArticle(resp'.target).creator = resp'.actor]_vars

(* C6: POST /api/articles of a non-admin creates a row only under a write  *)
(* row on the body's category, is answered 403 without creating anything   *)
(* otherwise, and the created row's author is the requesting user.         *)
C6_CreateNeedsWrite ==
    [][(resp'.op = "POST /api/articles" /\ NonAdmin(resp'.actor))
          => LET u == resp'.actor
                 c == resp'.target
             IN IF c # NULL /\ HoldsType(u, c, {"write"})
                THEN /\ resp'.status \in {201, 400}
                     /\ resp'.status = 201 =>
                           /\ articles' = articles \cup {resp'.body}
                           /\ resp'.body.id \notin ArticleIds
                           /\ resp'.body.authorId = u
                           /\ resp'.body.categoryId = c
                     /\ resp'.status = 400 => articles' = articles
                ELSE resp'.status = 403 /\ articles' = articles]_vars

(* A non-admin holding write on the named category has created an article *)
(* and is its author.                                                      *)
C6_Witness ==
    /\ resp.op = "POST /api/articles"
    /\ resp.status = 201
    /\ NonAdmin(resp.actor)
    /\ resp.body.authorId = resp.actor
    /\ HoldsType(resp.actor, resp.body.categoryId, {"write"})

(* C7: after a successful POST /api/categories the Permission table holds  *)
(* exactly one write row for (creator, new category).                      *)
C7_CreatorHoldsWrite ==
    (resp.op = "POST /api/categories" /\ resp.status = 201)
        => Cardinality({p \in permissions :
                          /\ p.userId \in {resp.actor, resp.body.createdBy}
                          /\ p.categoryId = resp.target
                          /\ p.permissionType = "write"}) = 1

(* C8: GET /api/categories gives an admin every category and a non-admin   *)
(* exactly the categories the user created or holds a non-`none` row on,   *)
(* each once.                                                              *)
VisibleCategoryIds(u) ==
    {c.id : c \in {d \in categories :
                     d.createdBy = u \/ HoldsType(u, d.id, PermissionTypes \ {"none"})}}

C8_CategoriesListed ==
    resp.op = "GET /api/categories"
        => /\ {row[1] : row \in resp.body} =
                IF IsAdmin(resp.actor) THEN CategoryIds ELSE VisibleCategoryIds(resp.actor)
           /\ \A r1, r2 \in resp.body : r1[1] = r2[1] => r1 = r2

(* C9: there is at most one Permission row per (userId, categoryId) pair.  *)
C9_OneRowPerPair ==
    \A p, q \in permissions :
        (p.userId = q.userId /\ p.categoryId = q.categoryId) => p.id = q.id

(* C10: a request of a user whose stored role is not admin leaves the      *)
(* categories and the permissions as they were, and is answered 403 on     *)
(* every category-write and permission route.                              *)
C10_NonAdminFrame ==
    [][NonAdmin(resp'.actor)
          => /\ categories' = categories
             /\ permissions' = permissions
             /\ nextCategoryId' = nextCategoryId
             /\ nextPermissionId' = nextPermissionId
             /\ resp'.op \in AdminOnlyOps => resp'.status = 403]_vars

(* A user who was an admin and created a category is, once demoted,        *)
(* refused the update of a permission row.                                 *)
C10_Witness ==
    /\ resp.op = "PUT /api/permissions/:id"
    /\ resp.status = 403
    /\ NonAdmin(resp.actor)
    /\ resp.target \in PermissionIds
    /\ \E c \in categories : c.createdBy = resp.actor

----------------------------------------------------------------------------
(* Two ordinary users next to the administrator: the second one has        *)
(* registered (POST /api/register, role "user") after the seeding.         *)
RegisteredUserId == SeedUserId + 1

InitScenario ==
    /\ users = {[id |-> SeedAdminId, role |-> "admin"],
                [id |-> SeedUserId, role |-> "user"],
                [id |-> RegisteredUserId, role |-> "user"]}
    /\ categories = {}
    /\ articles = {}
    /\ permissions = {}
    /\ nextCategoryId = 1
    /\ nextArticleId = 1
    /\ nextPermissionId = 1
    /\ resp = Answer("none", NULL, NULL, 0, NoBody)
    /\ files = {}
    /\ nextUserId = RegisteredUserId + 1
    /\ nextFileId = 1
    /\ inflight = <<>>
    /\ pw = [call |-> "none"]

(* The requests of the permission scenario: the administrator creates     *)
(* categories and grants the two users rows on them; the two users send    *)
(* the four article requests, leaving the author of an article alone.      *)
ScenarioUsers == {SeedUserId, RegisteredUserId}
ScenarioBodies == {body \in ArticleBodies : body.authorId = Absent}
ScenarioPatches == {body \in ArticlePatches : body.authorId = Absent}

ScenarioGrant ==
    /\ PostPermission(SeedAdminId)
    /\ \A p \in permissions' : p.userId \in ScenarioUsers /\ p.categoryId \in CategoryIds

ScenarioHandlers ==
    \/ PostCategory(SeedAdminId)
    \/ ScenarioGrant
    \/ \E u \in ScenarioUsers :
          \/ \E id \in 1 .. MaxArticles : GetArticle(u, id)
          \/ \E body \in ScenarioBodies : PostArticle(u, body)
          \/ \E id \in 1 .. MaxArticles, body \in ScenarioPatches : PutArticle(u, id, body)
          \/ \E id \in 1 .. MaxArticles : DeleteArticle(u, id)

NextScenario == ScenarioHandlers /\ UNCHANGED aux

SpecScenario == InitScenario /\ [][NextScenario]_vars

(* C11: on an article in a category, its non-admin creator and author who  *)
(* holds write there is never refused the update and deletes it; another   *)
(* non-admin without a row on the category is answered 403 on read; with a *)
(* read row that user reads the article and is answered 403 on update.     *)
(* The rows consulted are those of the state the request meets, so a grant *)
(* counts from the very next request.                                      *)
C11_ScenarioAnswers ==
    [][(/\ NonAdmin(resp'.actor)
        /\ resp'.op \in {"GET /api/articles/:id", "PUT /api/articles/:id",
                         "DELETE /api/articles/:id"}
        /\ resp'.target \in ArticleIds
        /\ getArticle(resp'.target).categoryId # NULL)
          => LET x == resp'.actor
                 a == getArticle(resp'.target)
                 isU == /\ a.creator = x /\ a.authorId = x
                        /\ HoldsType(x, a.categoryId, {"write"})
                 isVBefore == a.authorId # x /\ RowsOfPair(x, a.categoryId) = {}
                 isVAfter == a.authorId # x /\ HoldsType(x, a.categoryId, {"read"})
             IN /\ (isU /\ resp'.op = "PUT /api/articles/:id") =>
                      /\ resp'.status \in {200, 500}
                      /\ resp'.status = 200 =>
                            articles' = (articles \ {a}) \cup {resp'.body}
                /\ (isU /\ resp'.op = "DELETE /api/articles/:id") =>
                      (resp'.status = 204 /\ articles' = articles \ {a})
                /\ (isVBefore /\ resp'.op = "GET /api/articles/:id") =>
                      resp'.status = 403
                /\ (isVAfter /\ resp'.op = "GET /api/articles/:id") =>
                      (resp'.status = 200 /\ resp'.body = a)
                /\ (isVAfter /\ resp'.op = "PUT /api/articles/:id") =>
                      (resp'.status = 403 /\ articles' = articles)]_vars

(* The end of the scenario: V, holding read on the category, has just been *)
(* refused the update of the article that U, holding write, created.       *)
C11_Witness ==
    /\ resp.op = "PUT /api/articles/:id"
    /\ resp.status = 403
    /\ NonAdmin(resp.actor)
    /\ \E a \in articles :
          /\ a.id = resp.target
          /\ a.categoryId # NULL
          /\ a.creator # resp.actor /\ a.authorId = a.creator
          /\ NonAdmin(a.creator)
          /\ HoldsType(a.creator, a.categoryId, {"write"})
          /\ HoldsType(resp.actor, a.categoryId, {"read"})

----------------------------------------------------------------------------
(* File upload                                                              *)

(* How many file rows the serial may hand out.                             *)
MaxFiles == 2

FileIds == {f.id : f \in files}
ArticleRefOk(ref) == ref = NULL \/ ref \in ArticleIds

(* A multipart request: whether a file part came with it, and the form     *)
(* fields categoryId and articleId (Absent when the field is not sent).    *)
UploadBodies ==
    [hasFile : {TRUE}, categoryId : (1 .. MaxCategories) \cup {Absent},
     articleId : (1 .. MaxArticles) \cup {Absent}]
        \cup {[hasFile |-> FALSE, categoryId |-> Absent, articleId |-> Absent]}

(* The files table has no category column: of fileData only uploadedBy and *)
(* articleId (articleId || null) are references that reach the row.        *)
fileData(u, body) ==
    [uploadedBy |-> u,
     articleId |-> IF body.articleId = Absent THEN NULL ELSE body.articleId]

createFile(data) ==
    files \cup {[id |-> nextFileId, uploadedBy |-> data.uploadedBy,
                 articleId |-> data.articleId]}

canUpload(u, categoryId) ==
    \/ getUser(u).role = "admin"
    \/ ~(\/ getUserCategoryPermission(u, categoryId) = NoRow
         \/ getUserCategoryPermission(u, categoryId).permissionType = "none")

(* POST /api/files/upload of server/routes.ts.  The answer's target is the *)
(* categoryId field of the request.                                        *)
UploadFile(u, body) ==
    LET op == "POST /api/files/upload" IN
    IF ~body.hasFile THEN
        /\ resp' = Answer(op, u, body.categoryId, 400, NoBody)
        /\ UNCHANGED <<files, nextFileId>>
    ELSE IF body.categoryId # Absent /\ ~canUpload(u, body.categoryId) THEN
        /\ resp' = Answer(op, u, body.categoryId, 403, NoBody)
        /\ UNCHANGED <<files, nextFileId>>
    ELSE IF ~ArticleRefOk(fileData(u, body).articleId) THEN
        /\ resp' = Answer(op, u, body.categoryId, 500, NoBody)
        /\ UNCHANGED <<files, nextFileId>>
    ELSE
        /\ nextFileId <= MaxFiles
        /\ files' = createFile(fileData(u, body))
        /\ nextFileId' = nextFileId + 1
        /\ resp' = Answer(op, u, body.categoryId, 201,
                          [id |-> nextFileId, uploadedBy |-> u,
                           articleId |-> fileData(u, body).articleId])

(* The same route in the alternate routes file: no permission check, the   *)
(* form fields are not read, the answer is res.json({files}).              *)
UploadFileAlternate(u, body) ==
    LET op == "POST /api/files/upload" IN
    IF ~body.hasFile THEN
        /\ resp' = Answer(op, u, body.categoryId, 400, NoBody)
        /\ UNCHANGED <<files, nextFileId>>
    ELSE
        /\ nextFileId <= MaxFiles
        /\ files' = createFile([uploadedBy |-> u, articleId |-> NULL])
        /\ nextFileId' = nextFileId + 1
        /\ resp' = Answer(op, u, body.categoryId, 200,
                          [id |-> nextFileId, uploadedBy |-> u, articleId |-> NULL])

(* Uploads among the requests that make categories, grants and articles.   *)
NextFiles ==
    \E u \in UserIds :
        \/ /\ \/ PostCategory(u)
              \/ PostPermission(u)
              \/ \E body \in ArticleBodies : PostArticle(u, body)
           /\ UNCHANGED aux
        \/ /\ \/ \E body \in UploadBodies : UploadFile(u, body)
              \/ \E body \in UploadBodies : UploadFileAlternate(u, body)
           /\ UNCHANGED <<store, nextCategoryId, nextArticleId, nextPermissionId,
                          nextUserId, inflight, pw>>

SpecFiles == Init /\ [][NextFiles]_vars

(* C12: an upload of a non-admin that names a category persists a file row *)
(* only under a write row on that category; with a read or none row, or no *)
(* row, it is answered 403 and no file row is created.                     *)
C12_UploadNeedsWrite ==
    [][(/\ resp'.op = "POST /api/files/upload"
        /\ NonAdmin(resp'.actor)
        /\ resp'.target # Absent)
          => IF HoldsType(resp'.actor, resp'.target, {"write"})
             THEN TRUE
             ELSE resp'.status = 403 /\ files' = files]_vars

----------------------------------------------------------------------------
(* Password helpers (auth.ts): strings are sequences of characters         *)

(* Lengths of the model, scaled down from the code's: passwords of up to   *)
(* MaxPasswordLen characters, a derived key of KeyLen bytes (64 in the     *)
(* code), a salt of SaltBytes random bytes (16 in the code).               *)
MaxPasswordLen == 2
KeyLen == 2
SaltBytes == 1

(* The characters of the model: three hex digits, a letter that is no hex  *)
(* digit, the delimiter and the dollar sign of the bcrypt prefixes.        *)
HexDigits == <<"2", "a", "b">>
Alphabet == <<"2", "a", "b", "y", ".", "$">>
Hex == {HexDigits[i] : i \in 1 .. Len(HexDigits)}

CharCode(c) == CHOOSE i \in 1 .. Len(Alphabet) : Alphabet[i] = c

(* A string read as a number, different for different strings.             *)
RECURSIVE StringValue(_)
StringValue(str) ==
    IF str = <<>> THEN 0
    ELSE CharCode(Head(str)) + (Len(Alphabet) + 1) * StringValue(Tail(str))

RECURSIVE Power(_, _)
Power(b, n) == IF n = 0 THEN 1 ELSE b * Power(b, n - 1)

StringsOver(chars, n) ==
    UNION {[1 .. k -> chars] : k \in 0 .. n}

(* A byte is a pair of hex digits; Buffer.toString("hex") writes the pairs *)
(* out, Buffer.from(text, "hex") reads complete pairs and stops at the     *)
(* first pair that is not hex.                                             *)
ByteOf(n) ==
    <<HexDigits[((n \div Len(HexDigits)) % Len(HexDigits)) + 1],
      HexDigits[(n % Len(HexDigits)) + 1]>>

RECURSIVE BytesOf(_, _)
BytesOf(n, len) ==
    IF len = 0 THEN <<>>
    ELSE BytesOf(n \div (Len(HexDigits) * Len(HexDigits)), len - 1)
             \o <<ByteOf(n % (Len(HexDigits) * Len(HexDigits)))>>

RECURSIVE toStringHex(_)
toStringHex(buf) ==
    IF buf = <<>> THEN <<>> ELSE Head(buf) \o toStringHex(Tail(buf))

RECURSIVE BufferFromHex(_)
BufferFromHex(text) ==
    IF Len(text) < 2 \/ text[1] \notin Hex \/ text[2] \notin Hex THEN <<>>
    ELSE <<(<<text[1], text[2]>>)>> \o BufferFromHex(SubSeq(text, 3, Len(text)))

(* scrypt(password, salt, keylen): a deterministic key of keylen bytes     *)
(* that differs for different passwords under one salt (no collisions      *)
(* among the passwords of the model).                                      *)
scrypt(password, salt, keylen) ==
    BytesOf((StringValue(password) + StringValue(salt))
                % Power(Len(HexDigits) * Len(HexDigits), keylen), keylen)

(* randomBytes(16).toString("hex")                                         *)
Salts ==
    {toStringHex(bytes) :
        bytes \in [1 .. SaltBytes ->
                     {ByteOf(n) : n \in 0 .. Len(HexDigits) * Len(HexDigits) - 1}]}

(* A hash that leaves the salt out of the stored text.                     *)
hashPasswordUnsalted(password, salt) ==
    toStringHex(scrypt(password, salt, KeyLen))

hashPassword(password, salt) ==
    toStringHex(scrypt(password, salt, KeyLen)) \o <<".">> \o salt

startsWith(str, prefix) ==
    Len(str) >= Len(prefix) /\ SubSeq(str, 1, Len(prefix)) = prefix

includes(str, c) == \E i \in 1 .. Len(str) : str[i] = c

isBcrypt(stored) ==
    \/ startsWith(stored, <<"$", "2", "a", "$">>)
    \/ startsWith(stored, <<"$", "2", "b", "$">>)
    \/ startsWith(stored, <<"$", "2", "y", "$">>)

(* The first two fields of stored.split("."): the text before the first    *)
(* delimiter, and the text between the first and the second one.           *)
FirstDot(str) == CHOOSE i \in 1 .. Len(str) : str[i] = "." /\ \A j \in 1 .. i - 1 : str[j] # "."
splitHashed(stored) == SubSeq(stored, 1, FirstDot(stored) - 1)
splitRest(stored) == SubSeq(stored, FirstDot(stored) + 1, Len(stored))
splitSalt(stored) ==
    IF includes(splitRest(stored), ".") THEN splitHashed(splitRest(stored))
    ELSE splitRest(stored)

(* bcrypt: a hash is the version prefix and the digest, BcryptLen          *)
(* characters in all (60 in bcryptjs); compare answers false for a text of *)
(* any other length and compares the recomputed hash otherwise.            *)
BcryptLen == 4 + 2 * KeyLen
bcryptHash(password, prefix) ==
    prefix \o toStringHex(scrypt(password, prefix, KeyLen))
bcryptCompare(supplied, stored) ==
    /\ Len(stored) = BcryptLen
    /\ stored = bcryptHash(supplied, SubSeq(stored, 1, 4))

(* comparePasswords, with the branch that gave the answer.                 *)
comparePasswordsVia(supplied, stored) ==
    IF stored = <<>> THEN [result |-> FALSE, branch |-> "empty"]
    ELSE IF isBcrypt(stored)
    THEN [result |-> bcryptCompare(supplied, stored), branch |-> "bcrypt"]
    ELSE IF includes(stored, ".")
    THEN [result |->
              /\ splitHashed(stored) # <<>>
              /\ splitSalt(stored) # <<>>
              /\ Len(BufferFromHex(splitHashed(stored))) = KeyLen
              /\ BufferFromHex(splitHashed(stored))
                    = scrypt(supplied, splitSalt(stored), KeyLen),
          branch |-> "scrypt"]
    ELSE [result |-> supplied = stored, branch |-> "plaintext"]

comparePasswords(supplied, stored) == comparePasswordsVia(supplied, stored).result

(* The passwords of the model: non-empty (passport-local turns an empty    *)
(* one away before the verify callback), some with a delimiter in them.    *)
Passwords == StringsOver({"a", "."}, MaxPasswordLen) \ {<<>>}

(* Stored values handed to comparePasswords: what hashPassword and bcrypt  *)
(* write, and damaged or foreign texts built from them.                    *)
StoredVariants(password, salt) ==
    LET digest == toStringHex(scrypt(password, salt, KeyLen)) IN
    { <<>>,
      password,
      digest,
      <<".">>,
      <<".">> \o salt,
      digest \o <<".">>,
      digest \o <<".">> \o salt,
      digest \o <<".">> \o salt \o <<".">> \o salt,
      SubSeq(digest, 1, Len(digest) - 2) \o <<".">> \o salt,
      digest \o <<"a", "a">> \o <<".">> \o salt,
      digest \o <<"a">> \o <<".">> \o salt,
      digest \o <<"y">> \o <<".">> \o salt,
      <<"y", "y">> \o digest \o <<".">> \o salt,
      bcryptHash(password, <<"$", "2", "a", "$">>),
      bcryptHash(password, <<"$", "2", "y", "$">>) \o <<"a">>,
      <<"$", "2", "b", "$">> }

(* The arguments of one run of the helpers: a password and the salt drawn  *)
(* for it, a supplied password, and a stored value.                        *)
InitPasswords ==
    /\ users = {[id |-> SeedAdminId, role |-> "admin"],
                [id |-> SeedUserId, role |-> "user"]}
    /\ categories = {}
    /\ articles = {}
    /\ permissions = {}
    /\ nextCategoryId = 1
    /\ nextArticleId = 1
    /\ nextPermissionId = 1
    /\ resp = Answer("none", NULL, NULL, 0, NoBody)
    /\ files = {}
    /\ nextUserId = SeedUserId + 1
    /\ nextFileId = 1
    /\ inflight = <<>>
    /\ \E password \in Passwords, salt \in Salts, supplied \in Passwords :
          \E stored \in StoredVariants(password, salt) :
              pw = [call |-> "none", password |-> password, salt |-> salt,
                    fromHash |-> FALSE, supplied |-> supplied, stored |-> stored,
                    result |-> FALSE, branch |-> "none"]

HashPassword ==
    /\ pw.call = "none"
    /\ pw' = [pw EXCEPT !.call = "hashPassword", !.fromHash = TRUE,
                        !.stored = hashPassword(pw.password, pw.salt)]
    /\ UNCHANGED <<store, nextCategoryId, nextArticleId, nextPermissionId, resp,
                   files, nextUserId, nextFileId, inflight>>

(* comparePasswords on what hashPassword has returned, or on the stored    *)
(* value as it was found.                                                  *)
ComparePasswords ==
    /\ pw.call \in {"none", "hashPassword"}
    /\ pw' = [pw EXCEPT !.call = "comparePasswords",
                        !.result = comparePasswords(pw.supplied, pw.stored),
                        !.branch = comparePasswordsVia(pw.supplied, pw.stored).branch]
    /\ UNCHANGED <<store, nextCategoryId, nextArticleId, nextPermissionId, resp,
                   files, nextUserId, nextFileId, inflight>>

NextPasswords == HashPassword \/ ComparePasswords

SpecPasswords == InitPasswords /\ [][NextPasswords]_vars

(* C13: comparePasswords(q, hashPassword(p)) is true exactly when q = p,   *)
(* for every salt, and the answer comes from the hash.salt branch.         *)
C13_HashThenCompare ==
    (pw.call = "comparePasswords" /\ pw.fromHash)
        => /\ pw.result = (pw.supplied = pw.password)
           /\ pw.branch = "scrypt"

(* A password with a delimiter in it has been hashed and verified.         *)
C13_Witness ==
    /\ pw.call = "comparePasswords"
    /\ pw.fromHash
    /\ pw.result
    /\ pw.supplied = pw.password
    /\ includes(pw.password, ".")

(* C16: a stored value that is empty, has neither delimiter nor legacy     *)
(* prefix, has an empty hash or salt part, or whose hash part is not hex   *)
(* or not of the key's length, verifies no password.                       *)
Malformed(stored) ==
    \/ stored = <<>>
    \/ ~isBcrypt(stored) /\ ~includes(stored, ".")
    \/ /\ ~isBcrypt(stored)
       /\ includes(stored, ".")
       /\ \/ splitHashed(stored) = <<>>
          \/ splitSalt(stored) = <<>>
          \/ \E i \in 1 .. Len(splitHashed(stored)) : splitHashed(stored)[i] \notin Hex
          \/ Len(splitHashed(stored)) # 2 * KeyLen

C16_MalformedNeverVerifies ==
    (pw.call = "comparePasswords" /\ Malformed(pw.stored)) => pw.result = FALSE

----------------------------------------------------------------------------
(* POST /api/login: the verify callback of the local strategy              *)

(* How many logins may be under way at once.                               *)
MaxLogins == 2
LoginSlots == 1 .. MaxLogins

AdminEmail == "admin@example.com"
UserEmail == "user@example.com"
AdminPassword == <<"a">>
UserPassword == <<"a", "a">>

Idle ==
    [pc |-> "idle", email |-> "", password |-> <<>>, userId |-> NULL,
     stored |-> <<>>, newHash |-> <<>>, status |-> 0]

(* The seeded administrator with a hash written by hashPassword, and the   *)
(* ordinary user with a bcrypt hash left by an earlier version of the      *)
(* server.                                                                 *)
InitLogin ==
    /\ users = {[id |-> SeedAdminId, role |-> "admin", email |-> AdminEmail,
                 passwordHash |-> hashPassword(AdminPassword, CHOOSE salt \in Salts : TRUE)],
                [id |-> SeedUserId, role |-> "user", email |-> UserEmail,
                 passwordHash |-> bcryptHash(UserPassword, <<"$", "2", "a", "$">>)]}
    /\ categories = {}
    /\ articles = {}
    /\ permissions = {}
    /\ nextCategoryId = 1
    /\ nextArticleId = 1
    /\ nextPermissionId = 1
    /\ resp = Answer("none", NULL, NULL, 0, NoBody)
    /\ files = {}
    /\ nextUserId = SeedUserId + 1
    /\ nextFileId = 1
    /\ inflight = [slot \in LoginSlots |-> Idle]
    /\ pw = [call |-> "none"]

getUserByEmail(email) ==
    IF \E u \in users : u.email = email
    THEN CHOOSE u \in users : u.email = email
    ELSE NoRow

(* An upgrade that does not ask whether the password was right.            *)
needsUpgradeUnchecked(ok, stored) == isBcrypt(stored)

(* if (ok && isBcrypt)                                                      *)
needsUpgrade(ok, stored) == ok /\ isBcrypt(stored)

updatePasswordHash(id, newHash) ==
    {IF x.id = id THEN [x EXCEPT !.passwordHash = newHash] ELSE x : x \in users}

LoginFrame ==
    UNCHANGED <<categories, articles, permissions, nextCategoryId, nextArticleId,
                nextPermissionId, resp, files, nextUserId, nextFileId, pw>>

(* The callback up to its write: getUserByEmail, comparePasswords on the   *)
(* row it read, and hashPassword with a fresh salt when an upgrade is due. *)
(* Nothing is written here, so the three awaits are one step.              *)
LoginVerify(slot, email, password) ==
    LET user == getUserByEmail(email)
        ok == comparePasswords(password, user.passwordHash)
        started == [Idle EXCEPT !.email = email, !.password = password]
    IN
    /\ inflight[slot].pc = "idle"
    /\ IF user = NoRow THEN
           inflight' = [inflight EXCEPT ![slot] =
                           [started EXCEPT !.pc = "done", !.status = 401]]
       ELSE IF needsUpgrade(ok, user.passwordHash) THEN
           \E salt \in Salts :
               inflight' = [inflight EXCEPT ![slot] =
                               [started EXCEPT !.pc = "write", !.userId = user.id,
                                               !.stored = user.passwordHash,
                                               !.newHash = hashPassword(password, salt)]]
       ELSE
           inflight' = [inflight EXCEPT ![slot] =
                           [started EXCEPT !.pc = "done", !.userId = user.id,
                                           !.stored = user.passwordHash,
                                           !.status = IF ok THEN 200 ELSE 401]]
    /\ UNCHANGED users
    /\ LoginFrame

(* await storage.updateUser(user.id, { passwordHash: newHash }), then      *)
(* done(null, user) and the 200 of the route.                              *)
LoginUpgrade(slot) ==
    /\ inflight[slot].pc = "write"
    /\ users' = updatePasswordHash(inflight[slot].userId, inflight[slot].newHash)
    /\ inflight' = [inflight EXCEPT ![slot].pc = "done", ![slot].status = 200]
    /\ LoginFrame

(* The same write rejected by the store: the await throws, the callback's  *)
(* catch calls done(error), and the error handler answers 500.             *)
LoginUpgradeFails(slot) ==
    /\ inflight[slot].pc = "write"
    /\ inflight' = [inflight EXCEPT ![slot].pc = "failed", ![slot].status = 500]
    /\ UNCHANGED users
    /\ LoginFrame

(* The answer has gone out; the slot serves the next login.                *)
LoginAnswered(slot) ==
    /\ inflight[slot].pc \in {"done", "failed"}
    /\ inflight' = [inflight EXCEPT ![slot] = Idle]
    /\ UNCHANGED users
    /\ LoginFrame

NextLogin ==
    \E slot \in LoginSlots :
        \/ \E email \in {AdminEmail, UserEmail, "nobody@example.com"},
              password \in {AdminPassword, UserPassword} :
                LoginVerify(slot, email, password)
        \/ LoginUpgrade(slot)
        \/ LoginUpgradeFails(slot)
        \/ LoginAnswered(slot)

SpecLogin == InitLogin /\ [][NextLogin]_vars

(* C14: a login that succeeds against a bcrypt hash leaves a hash.salt     *)
(* hash of the same password in the row; a hash.salt hash stays one and    *)
(* keeps verifying its password, against which a login succeeds without a  *)
(* write; and only a login whose password verified ever writes the hash.   *)
(* Logins overlap freely.                                                  *)
C14_LegacyUpgraded ==
    [][/\ \A slot \in LoginSlots :
            LET before == inflight[slot]
                after == inflight'[slot]
            IN /\ (before.pc # "done" /\ after.pc = "done" /\ after.status = 200
                      /\ isBcrypt(after.stored))
                     => \E x \in users' :
                           /\ x.id = after.userId
                           /\ comparePasswordsVia(after.password, x.passwordHash)
                                 = [result |-> TRUE, branch |-> "scrypt"]
               /\ (before.pc = "idle" /\ after.pc # "idle" /\ after.userId # NULL
                      /\ ~isBcrypt(after.stored)
                      /\ comparePasswords(after.password, after.stored))
                     => (after.pc = "done" /\ after.status = 200 /\ users' = users)
               /\ after.pc = "write" => comparePasswords(after.password, after.stored)
       /\ \A x \in users, y \in users' :
            (x.id = y.id /\ ~isBcrypt(x.passwordHash))
                => /\ ~isBcrypt(y.passwordHash)
                   /\ \A p \in {AdminPassword, UserPassword} :
                         comparePasswords(p, x.passwordHash)
                             => comparePasswordsVia(p, y.passwordHash)
                                  = [result |-> TRUE, branch |-> "scrypt"]
       /\ users' # users
            => \E slot \in LoginSlots :
                  /\ inflight[slot].pc = "write"
                  /\ comparePasswords(inflight[slot].password, inflight[slot].stored)
      ]_vars

(* Two overlapping logins that both read the bcrypt hash have both         *)
(* succeeded, and the row holds a hash.salt hash of the password.          *)
C14_Witness ==
    /\ \A slot \in LoginSlots :
          /\ inflight[slot].pc = "done"
          /\ inflight[slot].status = 200
          /\ isBcrypt(inflight[slot].stored)
          /\ inflight[slot].userId = SeedUserId
    /\ comparePasswordsVia(UserPassword, getUser(SeedUserId).passwordHash)
          = [result |-> TRUE, branch |-> "scrypt"]

(* C15: when the write of the upgraded hash fails, the login is still      *)
(* answered as a success and the stored hash is left as it was.            *)
C15_FailedUpgradeSwallowed ==
    [][\A slot \in LoginSlots :
          (inflight[slot].pc = "write" /\ inflight'[slot].pc = "failed")
              => (inflight'[slot].status = 200 /\ users' = users)]_vars

----------------------------------------------------------------------------
(* POST /api/register                                                      *)

(* How many registrations may be under way at once, and the last value the *)
(* users id sequence hands out.                                            *)
MaxRegistrations == 2
MaxUserId == 5
RegisterSlots == 1 .. MaxRegistrations

RegisterEmails == {UserEmail, "new@example.com"}

IdleRegistration ==
    [pc |-> "idle", email |-> "", role |-> "", newHash |-> <<>>, status |-> 0]

InitRegister ==
    /\ users = {[id |-> SeedAdminId, role |-> "admin", email |-> AdminEmail,
                 passwordHash |-> hashPassword(AdminPassword, CHOOSE salt \in Salts : TRUE)],
                [id |-> SeedUserId, role |-> "user", email |-> UserEmail,
                 passwordHash |-> hashPassword(UserPassword, CHOOSE salt \in Salts : TRUE)]}
    /\ categories = {}
    /\ articles = {}
    /\ permissions = {}
    /\ nextCategoryId = 1
    /\ nextArticleId = 1
    /\ nextPermissionId = 1
    /\ resp = Answer("none", NULL, NULL, 0, NoBody)
    /\ files = {}
    /\ nextUserId = SeedUserId + 1
    /\ nextFileId = 1
    /\ inflight = [slot \in RegisterSlots |-> IdleRegistration]
    /\ pw = [call |-> "none"]

(* CONSTRAINT "users_email_unique" UNIQUE("email")                          *)
users_email_unique(rows) ==
    \A x \in rows, y \in rows : x.email = y.email => x = y

(* Whether the insert of data passes the table's constraints.              *)
insertAllowed(data) ==
    users_email_unique(users \cup {[data EXCEPT !.id = nextUserId]})

(* role: role || "user"                                                     *)
roleOrDefault(role) == IF role = "" THEN "user" ELSE role

(* The handler up to its insert: getUserByEmail, the 400 when a row is     *)
(* found, hashPassword with a fresh salt otherwise.                        *)
RegisterCheck(slot, email, password, role) ==
    LET existing == getUserByEmail(email)
        started == [IdleRegistration EXCEPT !.email = email, !.role = role]
    IN
    /\ inflight[slot].pc = "idle"
    /\ IF existing # NoRow THEN
           inflight' = [inflight EXCEPT ![slot] =
                           [started EXCEPT !.pc = "done", !.status = 400]]
       ELSE
           \E salt \in Salts :
               inflight' = [inflight EXCEPT ![slot] =
                               [started EXCEPT !.pc = "insert",
                                               !.newHash = hashPassword(password, salt)]]
    /\ UNCHANGED <<users, nextUserId>>
    /\ UNCHANGED <<categories, articles, permissions, nextCategoryId, nextArticleId,
                   nextPermissionId, resp, files, nextFileId, pw>>

(* await storage.createUser(...): the insert draws an id from the sequence *)
(* and either stores the row, answered 201 after req.login, or is rejected *)
(* by the table, which the catch answers 500.                              *)
RegisterInsert(slot) ==
    LET r == inflight[slot]
        data == [id |-> nextUserId, role |-> roleOrDefault(r.role), email |-> r.email,
                 passwordHash |-> r.newHash]
    IN
    /\ r.pc = "insert"
    /\ nextUserId <= MaxUserId
    /\ nextUserId' = nextUserId + 1
    /\ IF insertAllowed(data) THEN
           /\ users' = users \cup {data}
           /\ inflight' = [inflight EXCEPT ![slot].pc = "done", ![slot].status = 201]
       ELSE
           /\ users' = users
           /\ inflight' = [inflight EXCEPT ![slot].pc = "done", ![slot].status = 500]
    /\ UNCHANGED <<categories, articles, permissions, nextCategoryId, nextArticleId,
                   nextPermissionId, resp, files, nextFileId, pw>>

(* The answer has gone out; the slot serves the next registration.         *)
RegisterAnswered(slot) ==
    /\ inflight[slot].pc = "done"
    /\ inflight' = [inflight EXCEPT ![slot] = IdleRegistration]
    /\ UNCHANGED <<users, nextUserId>>
    /\ UNCHANGED <<categories, articles, permissions, nextCategoryId, nextArticleId,
                   nextPermissionId, resp, files, nextFileId, pw>>

NextRegister ==
    \E slot \in RegisterSlots :
        \/ \E email \in RegisterEmails, role \in {"", "admin"} :
                RegisterCheck(slot, email, UserPassword, role)
        \/ RegisterInsert(slot)
        \/ RegisterAnswered(slot)

SpecRegister == InitRegister /\ [][NextRegister]_vars

(* C17: user emails are unique, and a registration that ends while its     *)
(* email is taken is answered 400 and creates no user, whether the email   *)
(* was taken before the request began or by a registration running beside  *)
(* it.                                                                     *)
C17_TakenEmailIs400 ==
    [][/\ users_email_unique(users')
       /\ \A slot \in RegisterSlots :
            (/\ inflight[slot].pc # "done"
             /\ inflight'[slot].pc = "done"
             /\ \E x \in users : x.email = inflight'[slot].email)
                => (inflight'[slot].status = 400 /\ users' = users)]_vars

----------------------------------------------------------------------------
(* DELETE /api/articles/:id as two awaits: the existence and permission    *)
(* check, then the delete statement                                        *)

(* How many deletes may be under way at once.                              *)
MaxDeletes == 2
DeleteSlots == 1 .. MaxDeletes

(* The largest id a request names; ids from 3 on never had a row.          *)
MaxDeleteId == 3

IdleDelete ==
    [pc |-> "idle", actor |-> NULL, id |-> NULL, status |-> 0, deleted |-> "none"]

(* Two users, an article of each, and a file attached to the second        *)
(* article.                                                                *)
InitDelete ==
    /\ users = {[id |-> SeedAdminId, role |-> "admin"], [id |-> SeedUserId, role |-> "user"]}
    /\ categories = {}
    /\ articles = {[id |-> 1, categoryId |-> NULL, authorId |-> SeedUserId,
                    creator |-> SeedUserId],
                   [id |-> 2, categoryId |-> NULL, authorId |-> SeedAdminId,
                    creator |-> SeedAdminId]}
    /\ permissions = {}
    /\ nextCategoryId = 1
    /\ nextArticleId = 3
    /\ nextPermissionId = 1
    /\ resp = Answer("none", NULL, NULL, 0, NoBody)
    /\ files = {[id |-> 1, uploadedBy |-> SeedAdminId, articleId |-> 2]}
    /\ nextUserId = SeedUserId + 1
    /\ nextFileId = 2
    /\ inflight = [slot \in DeleteSlots |-> IdleDelete]
    /\ pw = [call |-> "none"]

DeleteFrame ==
    UNCHANGED <<users, categories, permissions, nextCategoryId, nextArticleId,
                nextPermissionId, resp, files, nextUserId, nextFileId, pw>>

(* result.rowCount of DELETE FROM articles WHERE id = $1                    *)
rowCount(id) == Cardinality({a \in articles : a.id = id})

(* A result that reports a removed row whatever the statement found.       *)
deletedAlways(id) == TRUE

(* return result.rowCount > 0                                               *)
deleted(id) == rowCount(id) > 0

(* files_article_id_articles_id_fk, ON DELETE no action: a row that a file *)
(* refers to cannot be removed.                                            *)
files_article_id_fk(id) ==
    \E f \in files : f.articleId = id /\ id \in ArticleIds

(* getUser, getArticle, the 404 and the 403.                               *)
DeleteCheck(slot, u, id) ==
    LET existingArticle == getArticle(id)
        started == [IdleDelete EXCEPT !.actor = u, !.id = id]
    IN
    /\ inflight[slot].pc = "idle"
    /\ inflight' = [inflight EXCEPT ![slot] =
           IF getUser(u) = NoRow THEN [started EXCEPT !.pc = "done", !.status = 404]
           ELSE IF existingArticle = NoRow THEN [started EXCEPT !.pc = "done", !.status = 404]
           ELSE IF ~canDelete(u, existingArticle)
                THEN [started EXCEPT !.pc = "done", !.status = 403]
           ELSE [started EXCEPT !.pc = "delete"]]
    /\ UNCHANGED articles
    /\ DeleteFrame

(* const deleted = await storage.deleteArticle(id), answered 204 or 404;   *)
(* a statement the table rejects throws and the catch answers 500.         *)
DeleteStatement(slot) ==
    LET id == inflight[slot].id IN
    /\ inflight[slot].pc = "delete"
    /\ IF files_article_id_fk(id) THEN
           /\ articles' = articles
           /\ inflight' = [inflight EXCEPT ![slot].pc = "done", ![slot].status = 500,
                                           ![slot].deleted = "threw"]
       ELSE
           /\ articles' = deleteArticle(id)
           /\ inflight' = [inflight EXCEPT
                  ![slot].pc = "done",
                  ![slot].status = IF deleted(id) THEN 204 ELSE 404,
                  ![slot].deleted = IF deleted(id) THEN "true" ELSE "false"]
    /\ DeleteFrame

(* The answer has gone out; the slot serves the next delete.               *)
DeleteAnswered(slot) ==
    /\ inflight[slot].pc = "done"
    /\ inflight' = [inflight EXCEPT ![slot] = IdleDelete]
    /\ UNCHANGED articles
    /\ DeleteFrame

NextDelete ==
    \E slot \in DeleteSlots :
        \/ \E u \in {SeedAdminId, SeedUserId}, id \in 1 .. MaxDeleteId : DeleteCheck(slot, u, id)
        \/ DeleteStatement(slot)
        \/ DeleteAnswered(slot)

SpecDelete == InitDelete /\ [][NextDelete]_vars

(* C18: a delete that ends for an id without a row is answered 404, its    *)
(* deleteArticle, when reached, returns false and does not throw, and      *)
(* nothing stored changes; the row may never have existed, or have been    *)
(* removed by an earlier delete or by one running beside this one.         *)
C18_MissingRowIs404 ==
    [][\A slot \in DeleteSlots :
          LET before == inflight[slot]
              after == inflight'[slot]
          IN (before.pc # "done" /\ after.pc = "done" /\ after.id \notin ArticleIds)
                 => /\ after.status = 404
                    /\ after.deleted = IF before.pc = "delete" THEN "false" ELSE "none"
                    /\ articles' = articles
                    /\ users' = users
                    /\ files' = files
                    /\ categories' = categories
                    /\ permissions' = permissions]_vars

(* Two deletes of one article passed the check together; one removed the   *)
(* row and was answered 204, the other found no row and was answered 404.  *)
C18_Witness ==
    \E s \in DeleteSlots, t \in DeleteSlots :
        /\ s # t
        /\ inflight[s].id = inflight[t].id
        /\ inflight[s].pc = "done" /\ inflight[s].status = 204
        /\ inflight[t].pc = "done" /\ inflight[t].status = 404
        /\ inflight[t].deleted = "false"

----------------------------------------------------------------------------
(* C19: every stored permission row has a permissionType among read, write *)
(* and none, and every stored user a role among admin and user.            *)
C19_EnumsKept ==
    /\ \A p \in permissions : p.permissionType \in {"read", "write", "none"}
    /\ \A x \in users : x.role \in {"admin", "user"}

(* C20: a create or update of an article whose body fails validation is    *)
(* answered 400, or 403 or 404 when it is turned away before validation,   *)
(* never 500, and writes nothing.                                          *)
C20_InvalidBodyIs400 ==
    [][\A u \in UserIds :
          (\/ \E body \in ArticleBodies : ~body.ok /\ PostArticle(u, body)
           \/ \E id \in 1 .. MaxArticles, body \in ArticlePatches :
                 ~body.ok /\ PutArticle(u, id, body))
              => (resp'.status \in {400, 403, 404} /\ UNCHANGED store)]_vars

----------------------------------------------------------------------------
(* Sessions: passport.session(), isAuthenticated, login, logout, register  *)

(* How many browser sessions (cookies) there are.                          *)
MaxSessions == 2
SessionIds == 1 .. MaxSessions

NewEmail == "new@example.com"

(* inflight holds req.session.passport.user of every session, and the      *)
(* session the last request came with.                                     *)
InitSession ==
    /\ users = {[id |-> SeedAdminId, role |-> "admin", email |-> AdminEmail,
                 passwordHash |-> hashPassword(AdminPassword, CHOOSE salt \in Salts : TRUE)],
                [id |-> SeedUserId, role |-> "user", email |-> UserEmail,
                 passwordHash |-> hashPassword(UserPassword, CHOOSE salt \in Salts : TRUE)]}
    /\ categories = {}
    /\ articles = {}
    /\ permissions = {}
    /\ nextCategoryId = 1
    /\ nextArticleId = 1
    /\ nextPermissionId = 1
    /\ resp = Answer("none", NULL, NULL, 0, NoBody)
    /\ files = {}
    /\ nextUserId = SeedUserId + 1
    /\ nextFileId = 1
    /\ inflight = [sessions |-> [s \in SessionIds |-> NULL], last |-> NULL]
    /\ pw = [call |-> "none"]

passportUser(s) == inflight.sessions[s]

(* A deserializer that trusts the id in the session without reading the    *)
(* row.                                                                    *)
deserializeStale(s) ==
    IF passportUser(s) = NULL THEN NoRow ELSE [id |-> passportUser(s)]

(* passport.deserializeUser: storage.getUser(id), done(null, false) when   *)
(* there is no row.                                                        *)
deserializeUser(s) ==
    IF passportUser(s) = NULL THEN NoRow ELSE getUser(passportUser(s))

(* passport.session() on a request of session s: a session whose user is   *)
(* gone loses its passport.user.                                           *)
sessionsAfter(s) == [inflight.sessions EXCEPT ![s] = deserializeUser(s).id]

(* req.isAuthenticated()                                                    *)
isAuthenticated(s) == deserializeUser(s) # NoRow

SessionFrame == UNCHANGED <<files, nextFileId, pw>>

Unauthorized(op, s) ==
    /\ resp' = Answer(op, NULL, NULL, 401, NoBody)
    /\ inflight' = [sessions |-> sessionsAfter(s), last |-> s]
    /\ UNCHANGED <<store, nextCategoryId, nextArticleId, nextPermissionId, nextUserId>>
    /\ SessionFrame

(* POST /api/login: the verify callback, req.login on success.             *)
SessionLogin(s, email, password) ==
    LET op == "POST /api/login"
        user == getUserByEmail(email)
        ok == user # NoRow /\ comparePasswords(password, user.passwordHash)
    IN
    /\ resp' = IF ok THEN Answer(op, user.id, NULL, 200, NoBody)
               ELSE Answer(op, NULL, NULL, 401, NoBody)
    /\ inflight' = [sessions |-> IF ok THEN [sessionsAfter(s) EXCEPT ![s] = user.id]
                                 ELSE sessionsAfter(s),
                    last |-> s]
    /\ UNCHANGED <<store, nextCategoryId, nextArticleId, nextPermissionId, nextUserId>>
    /\ SessionFrame

(* POST /api/logout: req.logout                                            *)
SessionLogout(s) ==
    /\ resp' = Answer("POST /api/logout", deserializeUser(s).id, NULL, 200, NoBody)
    /\ inflight' = [sessions |-> [inflight.sessions EXCEPT ![s] = NULL], last |-> s]
    /\ UNCHANGED <<store, nextCategoryId, nextArticleId, nextPermissionId, nextUserId>>
    /\ SessionFrame

(* POST /api/register as one step: 400 for a taken email, otherwise the    *)
(* insert and req.login.                                                   *)
SessionRegister(s, email, role) ==
    LET op == "POST /api/register"
        data == [id |-> nextUserId, role |-> roleOrDefault(role), email |-> email,
                 passwordHash |-> hashPassword(UserPassword, CHOOSE salt \in Salts : TRUE)]
    IN
    IF getUserByEmail(email) # NoRow THEN
        /\ resp' = Answer(op, NULL, NULL, 400, NoBody)
        /\ inflight' = [sessions |-> sessionsAfter(s), last |-> s]
        /\ UNCHANGED <<store, nextCategoryId, nextArticleId, nextPermissionId, nextUserId>>
        /\ SessionFrame
    ELSE
        /\ nextUserId <= MaxUserId
        /\ users' = users \cup {data}
        /\ nextUserId' = nextUserId + 1
        /\ resp' = Answer(op, data.id, NULL, 201, [id |-> data.id, role |-> data.role])
        /\ inflight' = [sessions |-> [sessionsAfter(s) EXCEPT ![s] = data.id], last |-> s]
        /\ UNCHANGED <<categories, articles, permissions,
                       nextCategoryId, nextArticleId, nextPermissionId>>
        /\ SessionFrame

(* users.id is referenced by articles, categories, permissions and files,  *)
(* ON DELETE no action.                                                    *)
users_id_referenced(id) ==
    \/ \E a \in articles : a.authorId = id
    \/ \E c \in categories : c.createdBy = id
    \/ \E p \in permissions : p.userId = id
    \/ \E f \in files : f.uploadedBy = id

deleteUser(id) == {x \in users : x.id # id}

DeleteUser(u, id) ==
    LET op == "DELETE /api/users/:id" IN
    IF ~requireAdmin(u) THEN
        /\ resp' = Answer(op, u, id, 403, NoBody)
        /\ UNCHANGED <<store, nextCategoryId, nextArticleId, nextPermissionId>>
    ELSE IF id \in UserIds /\ users_id_referenced(id) THEN
        /\ resp' = Answer(op, u, id, 500, NoBody)
        /\ UNCHANGED <<store, nextCategoryId, nextArticleId, nextPermissionId>>
    ELSE IF id \notin UserIds THEN
        /\ resp' = Answer(op, u, id, 404, NoBody)
        /\ UNCHANGED <<store, nextCategoryId, nextArticleId, nextPermissionId>>
    ELSE
        /\ users' = deleteUser(id)
        /\ resp' = Answer(op, u, id, 204, NoBody)
        /\ UNCHANGED <<categories, articles, permissions,
                       nextCategoryId, nextArticleId, nextPermissionId>>

(* GET /api/auth/me                                                         *)
GetMe(u) ==
    /\ resp' = IF getUser(u) = NoRow
               THEN Answer("GET /api/auth/me", u, u, 404, NoBody)
               ELSE Answer("GET /api/auth/me", u, u, 200,
                           [id |-> u, role |-> getUser(u).role])
    /\ UNCHANGED <<store, nextCategoryId, nextArticleId, nextPermissionId>>

(* A route behind isAuthenticated: 401 without req.user, the handler with  *)
(* req.user.id otherwise.                                                  *)
GuardedGetMe(s) ==
    IF ~isAuthenticated(s) THEN Unauthorized("GET /api/auth/me", s)
    ELSE /\ GetMe(deserializeUser(s).id)
         /\ inflight' = [sessions |-> sessionsAfter(s), last |-> s]
         /\ UNCHANGED nextUserId
         /\ SessionFrame

GuardedPostArticle(s, body) ==
    LET op == "POST /api/articles"
        u == deserializeUser(s).id
    IN
    IF ~isAuthenticated(s) THEN Unauthorized(op, s)
    ELSE /\ IF getUser(u) = NoRow THEN
                /\ resp' = Answer(op, u, body.categoryId, 404, NoBody)
                /\ UNCHANGED <<store, nextCategoryId, nextArticleId, nextPermissionId>>
            ELSE PostArticle(u, body)
         /\ inflight' = [sessions |-> sessionsAfter(s), last |-> s]
         /\ UNCHANGED nextUserId
         /\ SessionFrame

GuardedDeleteUser(s, id) ==
    IF ~isAuthenticated(s) THEN Unauthorized("DELETE /api/users/:id", s)
    ELSE /\ DeleteUser(deserializeUser(s).id, id)
         /\ inflight' = [sessions |-> sessionsAfter(s), last |-> s]
         /\ UNCHANGED nextUserId
         /\ SessionFrame

NextSession ==
    \E s \in SessionIds :
        \/ \E email \in {AdminEmail, UserEmail, NewEmail},
              password \in {AdminPassword, UserPassword} :
                SessionLogin(s, email, password)
        \/ SessionLogout(s)
        \/ \E email \in {UserEmail, NewEmail} : SessionRegister(s, email, "")
        \/ GuardedGetMe(s)
        \/ \E body \in ArticleBodies : GuardedPostArticle(s, body)
        \/ \E id \in SeedUserId .. MaxUserId : GuardedDeleteUser(s, id)

SpecSession == InitSession /\ [][NextSession]_vars

GuardedOps == {"GET /api/auth/me", "POST /api/articles", "DELETE /api/users/:id"}

(* C21: a request to a guarded route from a session that holds no user, or *)
(* the id of a user whose row is gone, is answered 401 and leaves every    *)
(* table as it was; a logout leaves the session without a user, and only a *)
(* login or registration answered 200 or 201 puts one into it.             *)
C21_NoSessionIs401 ==
    [][LET s == inflight'.last IN
       /\ (resp'.op \in GuardedOps
             /\ (inflight.sessions[s] = NULL \/ inflight.sessions[s] \notin UserIds))
            => /\ resp'.status = 401
               /\ UNCHANGED <<users, categories, articles, permissions, files>>
       /\ resp'.op = "POST /api/logout" => inflight'.sessions[s] = NULL
       /\ \A t \in SessionIds :
            (inflight'.sessions[t] # NULL /\ inflight'.sessions[t] # inflight.sessions[t])
                => /\ t = s
                   /\ resp'.op \in {"POST /api/login", "POST /api/register"}
                   /\ resp'.status \in {200, 201}
                   /\ inflight'.sessions[t] \in UserIds'
      ]_vars

(* A session that was logged in as the seeded user is answered 401 on      *)
(* POST /api/articles after an administrator deleted that user.            *)
C21_Witness ==
    /\ resp.op = "POST /api/articles"
    /\ resp.status = 401
    /\ SeedUserId \notin UserIds
    /\ inflight.sessions[inflight.last] = NULL
    /\ \E t \in SessionIds : inflight.sessions[t] = SeedAdminId

----------------------------------------------------------------------------
(* C22: a request that names an id without a row is not answered 403: the  *)
(* missing row is found before the caller's rights are looked at, on the   *)
(* category, article, permission and user routes that take an id.          *)
C22_ExistenceBeforeAuthorization ==
    [][(\/ /\ resp'.op \in {"PUT /api/categories/:id", "DELETE /api/categories/:id"}
           /\ resp'.target \notin CategoryIds
        \/ /\ resp'.op \in {"GET /api/articles/:id", "PUT /api/articles/:id",
                             "DELETE /api/articles/:id"}
           /\ resp'.target \notin ArticleIds
        \/ /\ resp'.op = "PUT /api/permissions/:id"
           /\ resp'.target \notin PermissionIds
        \/ /\ resp'.op = "PUT /api/users/:id"
           /\ resp'.target \notin UserIds)
          => resp'.status # 403]_vars

(* C23: every article that GET /api/articles returns to a non-admin user   *)
(* is one that GET /api/articles/:id would let that user read.             *)
C23_ListedAreReadable ==
    (resp.op = "GET /api/articles" /\ resp.status = 200 /\ NonAdmin(resp.actor))
        => \A a \in resp.body : canRead(resp.actor, a)

----------------------------------------------------------------------------
(* PUT /api/articles/:id with the article's content and updatedAt          *)

(* How many times updatedAt may be set anew.                               *)
MaxTouches == 4

Contents == {"a", "b"}

(* A category and an article of the administrator in it; the articles      *)
(* serial is used up.                                                      *)
InitVersions ==
    /\ users = {[id |-> SeedAdminId, role |-> "admin"], [id |-> SeedUserId, role |-> "user"]}
    /\ categories = {[id |-> 1, createdBy |-> SeedAdminId]}
    /\ articles = {[id |-> 1, categoryId |-> 1, authorId |-> SeedAdminId,
                    creator |-> SeedAdminId, content |-> "a", updatedAt |-> 0]}
    /\ permissions = {}
    /\ nextCategoryId = 2
    /\ nextArticleId = MaxArticles + 1
    /\ nextPermissionId = 1
    /\ resp = Answer("none", NULL, NULL, 0, NoBody)
    /\ InitAux

VersionedPatches ==
    [ok : {TRUE}, content : Contents \cup {"undefined"}]
        \cup {[ok |-> FALSE, content |-> "undefined"]}

(* A version written for every new content, whether or not the handler got *)
(* as far as the statement.                                                *)
versionDueUnreached(reached, content, existingArticle) ==
    content # "undefined" /\ content # existingArticle.content

(* if (articleData.content && articleData.content !== existingArticle      *)
(* .content), a statement reached only past the 404, the 403 and the parse *)
versionDue(reached, content, existingArticle) ==
    reached /\ content # "undefined" /\ content # existingArticle.content

(* createArticleVersion: UPDATE articles SET updated_at = now()            *)
createArticleVersion(rows, articleId) ==
    {IF a.id = articleId THEN [a EXCEPT !.updatedAt = @ + 1] ELSE a : a \in rows}

(* updateArticle: SET ...articleData, updated_at = now()                   *)
updateArticleContent(rows, id, content) ==
    {IF a.id = id THEN [a EXCEPT !.content = PatchText(@, content), !.updatedAt = @ + 1]
     ELSE a : a \in rows}

PutArticleVersioned(u, id, body) ==
    LET op == "PUT /api/articles/:id"
        existingArticle == getArticle(id)
        allowed == canEdit(u, existingArticle)
        reached == allowed /\ body.ok
        versioned == IF versionDue(reached, body.content, existingArticle)
                     THEN createArticleVersion(articles, id) ELSE articles
    IN
    IF existingArticle = NoRow THEN
        /\ resp' = Answer(op, u, id, 404, NoBody)
        /\ UNCHANGED <<store, nextCategoryId, nextArticleId, nextPermissionId>>
    ELSE
        /\ existingArticle.updatedAt + 2 <= MaxTouches
        /\ IF ~allowed THEN
               /\ resp' = Answer(op, u, id, 403, NoBody)
               /\ articles' = versioned
           ELSE IF ~body.ok THEN
               /\ resp' = Answer(op, u, id, 500, NoBody)
               /\ articles' = versioned
           ELSE
               /\ articles' = updateArticleContent(versioned, id, body.content)
               /\ resp' = Answer(op, u, id, 200, NoBody)
        /\ UNCHANGED <<users, categories, permissions,
                       nextCategoryId, nextArticleId, nextPermissionId>>

(* The administrator grants rows and updates the article; both users send  *)
(* the article requests and the upload; the ordinary user also tries the   *)
(* admin-only routes.                                                      *)
NextVersions ==
    \/ /\ \/ ScenarioGrant
          \/ PostCategory(SeedUserId)
          \/ PostPermission(SeedUserId)
          \/ \E id \in 1 .. MaxPermissions : PutPermission(SeedUserId, id)
          \/ \E id \in {SeedUserId, SeedUserId + 1} : PutUser(SeedUserId, id)
          \/ \E u \in {SeedAdminId, SeedUserId} :
                \/ \E body \in ArticleBodies : PostArticle(u, body)
                \/ \E body \in VersionedPatches : PutArticleVersioned(u, 1, body)
                \/ DeleteArticle(u, 1)
       /\ UNCHANGED aux
    \/ /\ \E u \in {SeedAdminId, SeedUserId} :
             \E body \in {b \in UploadBodies : b.articleId = Absent} : UploadFile(u, body)
       /\ UNCHANGED <<store, nextCategoryId, nextArticleId, nextPermissionId,
                      nextUserId, inflight, pw>>

SpecVersions == InitVersions /\ [][NextVersions]_vars

(* C24: a request that is answered 403 leaves every row of users,          *)
(* categories, articles (updatedAt included), permissions and files as it  *)
(* was.                                                                    *)
C24_DeniedWritesNothing ==
    [][resp'.status = 403
          => UNCHANGED <<users, categories, articles, permissions, files>>]_vars

(* A user holding only a read row on the article's category has been       *)
(* refused the update of the article.                                      *)
C24_Witness ==
    /\ resp.op = "PUT /api/articles/:id"
    /\ resp.status = 403
    /\ NonAdmin(resp.actor)
    /\ resp.target \in ArticleIds
    /\ HoldsType(resp.actor, getArticle(resp.target).categoryId, {"read"})

----------------------------------------------------------------------------
(* Storage failures: a rejected storage call inside a handler              *)

(* Routes whose handler body is wrapped in try/catch with a 500 answer.    *)
RoutesWithCatch ==
    {"GET /api/files", "POST /api/files/upload", "GET /api/articles", "POST /api/articles"}

(* Routes whose failure reaches the error-handling middleware through      *)
(* done(error) or next(err).                                               *)
RoutesWithErrorMiddleware == {"POST /api/login"}

(* Async handlers without try/catch: the rejected promise is handled by    *)
(* nobody.                                                                 *)
RoutesWithoutCatch ==
    {"POST /api/objects/upload", "GET /api/files (alternate)",
     "POST /api/files/upload (alternate)"}

FailingRoutes == RoutesWithCatch \cup RoutesWithErrorMiddleware \cup RoutesWithoutCatch

(* inflight holds the state of the server process and the requests that    *)
(* were never answered.                                                    *)
InitFailures ==
    /\ users = {[id |-> SeedAdminId, role |-> "admin"], [id |-> SeedUserId, role |-> "user"]}
    /\ categories = {}
    /\ articles = {}
    /\ permissions = {}
    /\ nextCategoryId = 1
    /\ nextArticleId = 1
    /\ nextPermissionId = 1
    /\ resp = Answer("none", NULL, NULL, 0, NoBody)
    /\ files = {}
    /\ nextUserId = SeedUserId + 1
    /\ nextFileId = 1
    /\ inflight = [process |-> "up", pending |-> {}]
    /\ pw = [call |-> "none"]

FailuresFrame ==
    UNCHANGED <<store, nextCategoryId, nextArticleId, nextPermissionId, nextUserId, pw>>

(* catch (error) { res.status(500).json({ message }) }                      *)
CaughtFailure(op, u) ==
    /\ inflight.process = "up"
    /\ op \in RoutesWithCatch \cup RoutesWithErrorMiddleware
    /\ resp' = Answer(op, u, NULL, 500, NoBody)
    /\ UNCHANGED <<inflight, files, nextFileId>>
    /\ FailuresFrame

(* An unhandled rejection: the request gets no answer, and the runtime     *)
(* either goes on or ends the process, depending on how it treats          *)
(* unhandled rejections.                                                   *)
UncaughtFailure(op, u) ==
    /\ inflight.process = "up"
    /\ op \in RoutesWithoutCatch
    /\ resp' = Answer(op, u, NULL, 0, NoBody)
    /\ \/ inflight' = [inflight EXCEPT !.pending = @ \cup {<<op, u>>}]
       \/ inflight' = [process |-> "down", pending |-> inflight.pending \cup {<<op, u>>}]
    /\ UNCHANGED <<files, nextFileId>>
    /\ FailuresFrame

(* The same routes when storage answers.                                   *)
Served(u) ==
    /\ inflight.process = "up"
    /\ \/ \E body \in UploadBodies : UploadFile(u, body)
       \/ \E body \in UploadBodies : UploadFileAlternate(u, body)
    /\ UNCHANGED inflight
    /\ FailuresFrame

NextFailures ==
    \E u \in {SeedAdminId, SeedUserId} :
        \/ Served(u)
        \/ \E op \in FailingRoutes : CaughtFailure(op, u)
        \/ \E op \in FailingRoutes : UncaughtFailure(op, u)

SpecFailures == InitFailures /\ [][NextFailures]_vars

(* C25: whatever storage call fails, the server process stays up and no    *)
(* request is left without its 500 answer.                                 *)
C25_FailuresAnswered ==
    /\ inflight.process = "up"
    /\ inflight.pending = {}
    /\ resp.op \in FailingRoutes => resp.status # 0

----------------------------------------------------------------------------
(* Concurrent PUT /api/articles/:id: the check, then the UPDATE statement  *)

(* How many updates may be under way at once.                              *)
MaxPuts == 2
PutSlots == 1 .. MaxPuts

IdlePut ==
    [pc |-> "idle", actor |-> NULL, id |-> NULL,
     data |-> [title |-> "undefined", content |-> "undefined"], status |-> 0]

(* An article of the ordinary user.                                        *)
InitPuts ==
    /\ users = {[id |-> SeedAdminId, role |-> "admin"], [id |-> SeedUserId, role |-> "user"]}
    /\ categories = {}
    /\ articles = {[id |-> 1, categoryId |-> NULL, authorId |-> SeedUserId,
                    creator |-> SeedUserId, title |-> "a", content |-> "a",
                    updatedAt |-> 0]}
    /\ permissions = {}
    /\ nextCategoryId = 1
    /\ nextArticleId = 2
    /\ nextPermissionId = 1
    /\ resp = Answer("none", NULL, NULL, 0, NoBody)
    /\ files = {}
    /\ nextUserId = SeedUserId + 1
    /\ nextFileId = 1
    /\ inflight = [slot \in PutSlots |-> IdlePut]
    /\ pw = [call |-> "none"]

PutBodies ==
    [ok : {TRUE}, title : Contents \cup {"undefined"}, content : Contents \cup {"undefined"}]
        \cup {[ok |-> FALSE, title |-> "undefined", content |-> "undefined"]}

PutFrame ==
    UNCHANGED <<users, categories, permissions, nextCategoryId, nextArticleId,
                nextPermissionId, resp, files, nextUserId, nextFileId, pw>>

(* An UPDATE that writes every column of the payload, supplied or not.     *)
setAllColumns(a, data) ==
    [a EXCEPT !.title = data.title, !.content = data.content, !.updatedAt = @ + 1]

(* .set({ ...articleData, updatedAt: new Date() }): the supplied columns   *)
(* and updated_at.                                                         *)
setColumns(a, data) ==
    [a EXCEPT !.title = PatchText(@, data.title),
              !.content = PatchText(@, data.content),
              !.updatedAt = @ + 1]

(* getUser, getArticle, canEdit and the parse: 404, 403, 500, or on to the *)
(* writes with the parsed payload.                                         *)
PutCheck(slot, u, id, body) ==
    LET existingArticle == getArticle(id)
        started == [IdlePut EXCEPT !.actor = u, !.id = id]
        data == [title |-> body.title, content |-> body.content]
    IN
    /\ inflight[slot].pc = "idle"
    /\ inflight' = [inflight EXCEPT ![slot] =
           IF existingArticle = NoRow THEN [started EXCEPT !.pc = "done", !.status = 404]
           ELSE IF ~canEdit(u, existingArticle)
                THEN [started EXCEPT !.pc = "done", !.status = 403]
           ELSE IF ~body.ok THEN [started EXCEPT !.pc = "done", !.status = 500]
           ELSE IF versionDue(TRUE, body.content, existingArticle)
                THEN [started EXCEPT !.pc = "version", !.data = data]
           ELSE [started EXCEPT !.pc = "update", !.data = data]]
    /\ UNCHANGED articles
    /\ PutFrame

(* await storage.createArticleVersion(req.params.id, userId)               *)
PutVersion(slot) ==
    /\ inflight[slot].pc = "version"
    /\ \A a \in articles : a.updatedAt < MaxTouches
    /\ articles' = createArticleVersion(articles, inflight[slot].id)
    /\ inflight' = [inflight EXCEPT ![slot].pc = "update"]
    /\ PutFrame

(* const article = await storage.updateArticle(...); res.json(article)     *)
PutUpdate(slot) ==
    LET r == inflight[slot] IN
    /\ r.pc = "update"
    /\ \A a \in articles : a.updatedAt < MaxTouches
    /\ articles' = {IF a.id = r.id THEN setColumns(a, r.data) ELSE a : a \in articles}
    /\ inflight' = [inflight EXCEPT ![slot].pc = "done", ![slot].status = 200]
    /\ PutFrame

(* The answer has gone out; the slot serves the next update.               *)
PutAnswered(slot) ==
    /\ inflight[slot].pc = "done"
    /\ inflight' = [inflight EXCEPT ![slot] = IdlePut]
    /\ UNCHANGED articles
    /\ PutFrame

NextPuts ==
    \E slot \in PutSlots :
        \/ \E u \in {SeedAdminId, SeedUserId}, id \in 1 .. MaxArticles, body \in PutBodies :
                PutCheck(slot, u, id, body)
        \/ PutVersion(slot)
        \/ PutUpdate(slot)
        \/ PutAnswered(slot)

SpecPuts == InitPuts /\ [][NextPuts]_vars

(* C26: an update that has passed its check is applied and answered 200    *)
(* whatever other updates of the row are under way; it sets the fields it  *)
(* supplies and leaves every other field of the row, and every other row,  *)
(* as the last update before it left them.                                 *)
C26_LastWriteWins ==
    [][\A slot \in PutSlots :
          LET before == inflight[slot]
              after == inflight'[slot]
          IN /\ (before.pc \in {"version", "update"} /\ after.pc # before.pc)
                   => after.pc \in {"update", "done"}
             /\ (before.pc = "update" /\ after.pc = "done")
                   => /\ after.status = 200
                      /\ \A a \in articles : \E b \in articles' :
                            /\ b.id = a.id
                            /\ b.title = IF a.id = before.id /\ before.data.title # "undefined"
                                         THEN before.data.title ELSE a.title
                            /\ b.content = IF a.id = before.id
                                                /\ before.data.content # "undefined"
                                           THEN before.data.content ELSE a.content
                            /\ b.categoryId = a.categoryId
                            /\ b.authorId = a.authorId
                      /\ Cardinality(articles') = Cardinality(articles)]_vars

(* Two updates of the article were under way together, one supplying only  *)
(* the title and one only the content; both were answered 200 and the row  *)
(* holds the title of the one and the content of the other.                *)
C26_Witness ==
    \E s \in PutSlots, t \in PutSlots :
        /\ s # t
        /\ inflight[s].pc = "done" /\ inflight[s].status = 200
        /\ inflight[t].pc = "done" /\ inflight[t].status = 200
        /\ inflight[s].id = inflight[t].id
        /\ inflight[s].data = [title |-> "b", content |-> "undefined"]
        /\ inflight[t].data = [title |-> "undefined", content |-> "b"]
        /\ \E a \in articles :
              a.id = inflight[s].id /\ a.title = "b" /\ a.content = "b"

----------------------------------------------------------------------------
(* C27: registrations, which need no session, never add to the users whose *)
(* role is admin.                                                          *)
C27_AdminsDoNotGrow ==
    [][{x.id : x \in {y \in users' : y.role = "admin"}}
          \subseteq {x.id : x \in {y \in users : y.role = "admin"}}]_vars

----------------------------------------------------------------------------
(* C28: an article that a non-admin user creates in a category, or moves   *)
(* into another category by an update, ends up in a category on which that *)
(* user holds a write row.                                                 *)
C28_PlacedOnlyWithWrite ==
    [][(/\ NonAdmin(resp'.actor)
        /\ \/ resp'.op = "POST /api/articles" /\ resp'.status = 201
           \/ /\ resp'.op = "PUT /api/articles/:id" /\ resp'.status = 200
              /\ resp'.target \in ArticleIds
              /\ resp'.body.categoryId # getArticle(resp'.target).categoryId
        /\ resp'.body.categoryId # NULL)
          => HoldsType(resp'.actor, resp'.body.categoryId, {"write"})]_vars

----------------------------------------------------------------------------
(* List and search reads of articles and files                             *)

(* A category with an unpublished article of the administrator and a file  *)
(* attached to it, and a published article outside every category.         *)
InitReads ==
    /\ users = {[id |-> SeedAdminId, role |-> "admin"], [id |-> SeedUserId, role |-> "user"]}
    /\ categories = {[id |-> 1, createdBy |-> SeedAdminId]}
    /\ articles = {[id |-> 1, categoryId |-> 1, authorId |-> SeedAdminId,
                    creator |-> SeedAdminId, title |-> "a", isPublished |-> FALSE],
                   [id |-> 2, categoryId |-> NULL, authorId |-> SeedAdminId,
                    creator |-> SeedAdminId, title |-> "b", isPublished |-> TRUE]}
    /\ permissions = {}
    /\ nextCategoryId = 2
    /\ nextArticleId = 3
    /\ nextPermissionId = 1
    /\ resp = Answer("none", NULL, NULL, 0, NoBody)
    /\ files = {[id |-> 1, uploadedBy |-> SeedAdminId, articleId |-> 1],
                [id |-> 2, uploadedBy |-> SeedAdminId, articleId |-> NULL]}
    /\ nextUserId = SeedUserId + 1
    /\ nextFileId = 3
    /\ inflight = <<>>
    /\ pw = [call |-> "none"]

ReadUsers == {SeedAdminId, SeedUserId}
ReadIds == {1, 2, 3}

(* ilike(title, %query%) over one-letter titles.                           *)
searchArticles(query) == {a \in articles : a.title = query}
getArticlesByCategory(categoryId) == {a \in articles : a.categoryId = categoryId}
getPublishedArticles == {a \in articles : a.isPublished}

(* req.query of GET /api/articles: search and categoryId, each possibly    *)
(* missing.                                                                *)
ArticleQueries ==
    [search : Contents \cup {"undefined"}, categoryId : {1, Absent}]

GetArticlesQuery(u, query) ==
    LET found == IF query.search # "undefined" THEN searchArticles(query.search)
                 ELSE IF query.categoryId # Absent
                      THEN getArticlesByCategory(query.categoryId)
                 ELSE IF getUser(u).role = "admin" THEN articles
                 ELSE getPublishedArticles
    IN
    /\ resp' = Answer("GET /api/articles", u, query.categoryId, 200,
                      IF getUser(u).role # "admin"
                      THEN {a \in found : a.categoryId \in allowedCategoryIds(u)}
                      ELSE found)
    /\ UNCHANGED <<store, nextCategoryId, nextArticleId, nextPermissionId>>

(* PUT /api/articles/:id with a payload that carries only isPublished.     *)
PutArticlePublished(u, id, isPublished) ==
    LET op == "PUT /api/articles/:id" IN
    IF getArticle(id) = NoRow THEN
        /\ resp' = Answer(op, u, id, 404, NoBody)
        /\ UNCHANGED <<store, nextCategoryId, nextArticleId, nextPermissionId>>
    ELSE IF ~canEdit(u, getArticle(id)) THEN
        /\ resp' = Answer(op, u, id, 403, NoBody)
        /\ UNCHANGED <<store, nextCategoryId, nextArticleId, nextPermissionId>>
    ELSE
        /\ articles' = {IF a.id = id THEN [a EXCEPT !.isPublished = isPublished] ELSE a
                        : a \in articles}
        /\ resp' = Answer(op, u, id, 200, NoBody)
        /\ UNCHANGED <<users, categories, permissions,
                       nextCategoryId, nextArticleId, nextPermissionId>>

getFile(id) == IF id \in FileIds THEN CHOOSE f \in files : f.id = id ELSE NoRow
getFilesByArticle(articleId) == {f \in files : f.articleId = articleId}

(* files INNER JOIN articles ON files.article_id = articles.id WHERE        *)
(* articles.category_id = $1                                               *)
getFilesByCategory(categoryId) ==
    {f \in files : \E a \in articles : f.articleId = a.id /\ a.categoryId = categoryId}

(* req.query of GET /api/files: articleId and categoryId, each possibly    *)
(* missing.                                                                *)
FileQueries == [articleId : {1, Absent}, categoryId : {1, Absent}]

(* GET /api/files: the rows found are the answer.                          *)
GetFiles(u, query) ==
    /\ resp' = Answer("GET /api/files", u, query.categoryId, 200,
                      IF query.articleId # Absent THEN getFilesByArticle(query.articleId)
                      ELSE IF query.categoryId # Absent
                           THEN getFilesByCategory(query.categoryId)
                      ELSE files)
    /\ UNCHANGED <<store, nextCategoryId, nextArticleId, nextPermissionId>>

(* file.categoryId of a row of table files, which has no such column.      *)
fileCategoryId(file) == NULL

(* GET /api/files/:id                                                       *)
GetFile(u, id) ==
    LET op == "GET /api/files/:id"
        file == getFile(id)
    IN
    /\ resp' = IF file = NoRow THEN Answer(op, u, id, 404, {})
               ELSE IF /\ getUser(u) # NoRow
                       /\ getUser(u).role # "admin"
                       /\ fileCategoryId(file) # NULL
                       /\ \/ getUserCategoryPermission(u, fileCategoryId(file)) = NoRow
                          \/ getUserCategoryPermission(u, fileCategoryId(file))
                                .permissionType = "none"
                    THEN Answer(op, u, id, 403, {})
               ELSE Answer(op, u, id, 200, {file})
    /\ UNCHANGED <<store, nextCategoryId, nextArticleId, nextPermissionId>>

NextReads ==
    /\ \/ ScenarioGrant
       \/ \E u \in ReadUsers :
             \/ \E query \in ArticleQueries : GetArticlesQuery(u, query)
             \/ \E id \in ReadIds, isPublished \in BOOLEAN :
                   PutArticlePublished(u, id, isPublished)
             \/ \E query \in FileQueries : GetFiles(u, query)
             \/ \E id \in ReadIds : GetFile(u, id)
    /\ UNCHANGED aux

SpecReads == InitReads /\ [][NextReads]_vars

(* C29: no article that GET /api/articles returns to a non-admin user is   *)
(* unpublished, whatever the query.                                        *)
C29_OnlyPublishedListed ==
    (resp.op = "GET /api/articles" /\ resp.status = 200 /\ NonAdmin(resp.actor))
        => \A a \in resp.body : a.isPublished

(* The category a file belongs to through its article, NULL when it has    *)
(* none.                                                                   *)
CategoryOfFile(f) ==
    IF f.articleId \in ArticleIds THEN getArticle(f.articleId).categoryId ELSE NULL

(* C30: every file whose metadata GET /api/files or GET /api/files/:id     *)
(* returns to a non-admin user belongs to no category or to one on which   *)
(* the user holds a read or write row.                                     *)
C30_FilesOnlyWithRead ==
    (resp.op \in {"GET /api/files", "GET /api/files/:id"} /\ resp.status = 200
       /\ NonAdmin(resp.actor))
        => \A f \in resp.body :
              \/ CategoryOfFile(f) = NULL
              \/ HoldsType(resp.actor, CategoryOfFile(f), {"read", "write"})

====
